---- MODULE Spec2Model ----
(***************************************************************************)
(* Power-grid simulator and per-agent PPO training (ArluAe/HackMIT).       *)
(*                                                                         *)
(* Part 1  PowerGrid structural operations (environment/PowerGrid.py).     *)
(* Part 2  RolloutBuffer and PPOAgent.update (agents/rollout_buffer.py,    *)
(*         agents/ppo_agent.py).                                           *)
(* Part 3  Battery state of charge (agents/BatteryAgent.py,                *)
(*         training/simple_trainer.py).                                    *)
(*                                                                         *)
(* Each part has its own specification; the variables of the other parts   *)
(* stay at their initial value under it.                                   *)
(***************************************************************************)
EXTENDS Integers, Sequences, FiniteSets, TLC

VARIABLES
    \* ---- PowerGrid ----
    nodes,          \* self.nodes: node id -> Node object
    branches,       \* self.branches: node id -> list of Branch
    total_inertia,  \* self.total_inertia
    network_dict,   \* self.network_dict["simulation"]: [nodes, connections]
    next_uid,       \* identity of the next Node object to be allocated
    ret,            \* the last PowerGrid call and what the caller got back
    \* ---- RolloutBuffer / PPOAgent ----
    observations, actions, rewards, values, log_probs, dones,
    ptr, path_start_idx,
    added,          \* history: transitions accepted by add since the last reset
    policy,         \* PPOAgent.policy parameters: "finite" or "nan"
    training_step,  \* PPOAgent.training_step
    bret,           \* the last RolloutBuffer / PPOAgent call and its outcome
    \* ---- Battery ----
    soc,            \* BatteryAgent.soc, in units of 1/SocUnits
    delta_e,        \* BatteryAgent.delta_e, in units of 1/SocUnits kWh
    battery,        \* BatteryAgent.capacity and .charge_rate
    aret,           \* the last battery operation and the action it was given
    \* ---- Producer / Consumer / Business agents ----
    agent,          \* the agent: its class and max_output / energy_consumption /
                    \* baseline_consumption
    agent_delta_e,  \* agent.delta_e, in units of 1/PowerUnits
    pret,           \* the last agent operation and the action it was given
    \* ---- PowerGrid pricing and tick ----
    price,          \* what calculate_electricity_price last returned, in
                    \* 1/PriceUnits $/MWh (NoVal: nothing returned)
    grid_dt,        \* PowerGrid.dt, in minutes
    grid_frequency, \* PowerGrid.grid_frequency, in Hz
    tick,           \* the last time_step: its arguments, the order in which it
                    \* visited self.nodes and what it did, line by line
    day,            \* the time_step calls of the last simulate_day
    \* ---- Branch ----
    branch,         \* Branch.capacity and .transmission_factor
    offset,         \* Node.offset of node0 and node1, in units of pi/6
    transmission,   \* what get_transmission last returned, in 1/SinUnits
    tret,           \* the last Branch operation
    \* ---- compute_reward ----
    rw,             \* the call: the agent (self), the state dict and the
                    \* other agents of all_agents
    reward,         \* what compute_reward returned, in 1/RewardUnits
    rret,           \* "__init__", "value" or "raised"
    \* ---- GAE ----
    rollout,        \* rewards, values and dones of one rollout, with the
                    \* agent's gamma and lambda (in halves)
    gae,            \* the last advantage computation and what it returned
    \* ---- PPOContinuous ----
    network,        \* optimizer steps taken on the policy and the value net
    nret,           \* the last PPOContinuous.update and the losses it returned
    \* ---- the PPO agents of one environment ----
    ppo_agents,     \* PowerGridEnvPPO.ppo_agents: agent id -> PPOAgent
    generators,     \* the process-wide random generators of numpy and torch
                    \* (how far their streams have been consumed) and
                    \* whether torch.distributions validates arguments
    uret,           \* the last call on the agents and its outcome
    \* ---- Node dynamics ----
    nd,             \* one Node: friction, dt and what its get_transmission
                    \* returns
    node_offset,    \* Node.offset, in units of pi/6
    node_doffset,   \* Node.doffset
    kret,           \* the last Node call, the d2offset it used and the calls so far
    \* ---- the training loop ----
    train,          \* GridPPOTrainer.train: where the loop is, the episode, and
                    \* the last collect_rollout: its n_steps and the
                    \* environment steps it made
    \* ---- the stochastic simulations of the server ----
    stochastic_simulations, \* app.stochastic_simulations[sim_id]
    simulation_results,     \* whether sim_id is a key of app.simulation_results
    thread,         \* the background thread: the statement it is at and its run
    handler,        \* the request being handled and the requests answered so far
    response,       \* the last response sent
    \* ---- BaseAgent histories ----
    base_agent,     \* BaseAgent: training_steps, step, and the slots of the
                    \* history arrays written since the last reset
    hret            \* the last BaseAgent call and what it worked on

gridVars == <<nodes, branches, total_inertia, network_dict, next_uid, ret>>
bufVars  == <<observations, actions, rewards, values, log_probs, dones,
              ptr, path_start_idx, added, policy, training_step, bret>>
batVars  == <<soc, delta_e, battery, aret>>
agentVars == <<agent, agent_delta_e, pret>>
tickVars == <<price, grid_dt, grid_frequency, tick, day>>
branchVars == <<branch, offset, transmission, tret>>
rewardVars == <<rw, reward, rret>>
gaeVars  == <<rollout, gae>>
netVars  == <<network, nret>>
multiVars == <<ppo_agents, generators, uret>>
dynVars == <<nd, node_offset, node_doffset, kret>>
trainVars == <<train>>
simVars == <<stochastic_simulations, simulation_results, thread, handler, response>>
baseVars == <<base_agent, hret>>
vars     == <<gridVars, bufVars, batVars, agentVars, tickVars, branchVars,
              rewardVars, gaeVars, netVars, multiVars, dynVars, trainVars, simVars, baseVars>>

\* What the operations of one part leave alone.
exceptGrid  == <<bufVars, batVars, agentVars, tickVars, branchVars,
                rewardVars, gaeVars, netVars, multiVars, dynVars, trainVars, simVars, baseVars>>
exceptBuf   == <<gridVars, batVars, agentVars, tickVars, branchVars,
                rewardVars, gaeVars, netVars, multiVars, dynVars, trainVars, simVars, baseVars>>
exceptBat   == <<gridVars, bufVars, agentVars, tickVars, branchVars,
                rewardVars, gaeVars, netVars, multiVars, dynVars, trainVars, simVars, baseVars>>
exceptAgent == <<gridVars, bufVars, batVars, tickVars, branchVars,
                rewardVars, gaeVars, netVars, multiVars, dynVars, trainVars, simVars, baseVars>>
exceptTick  == <<bufVars, batVars, agentVars, branchVars,
                rewardVars, gaeVars, netVars, multiVars, dynVars, trainVars, simVars, baseVars>>
exceptBranch == <<gridVars, bufVars, batVars, agentVars, tickVars,
                rewardVars, gaeVars, netVars, multiVars, dynVars, trainVars, simVars, baseVars>>
exceptReward == <<gridVars, bufVars, batVars, agentVars, tickVars, branchVars,
                 gaeVars, netVars, multiVars, dynVars, trainVars, simVars, baseVars>>
exceptGae == <<gridVars, bufVars, batVars, agentVars, tickVars, branchVars,
              rewardVars, netVars, multiVars, dynVars, trainVars, simVars, baseVars>>
exceptNet == <<gridVars, bufVars, batVars, agentVars, tickVars, branchVars,
              rewardVars, gaeVars, multiVars, dynVars, trainVars, simVars, baseVars>>
exceptMulti == <<gridVars, bufVars, batVars, agentVars, tickVars, branchVars,
                rewardVars, gaeVars, netVars, dynVars, trainVars, simVars, baseVars>>
exceptDyn == <<gridVars, bufVars, batVars, agentVars, tickVars, branchVars,
              rewardVars, gaeVars, netVars, multiVars, trainVars, simVars, baseVars>>
exceptTrain == <<gridVars, bufVars, batVars, agentVars, tickVars, branchVars,
                rewardVars, gaeVars, netVars, dynVars, simVars, baseVars>>
exceptSim == <<gridVars, bufVars, batVars, agentVars, tickVars, branchVars,
              rewardVars, gaeVars, netVars, multiVars, dynVars, trainVars, baseVars>>
exceptBase == <<gridVars, bufVars, batVars, agentVars, tickVars, branchVars,
               rewardVars, gaeVars, netVars, multiVars, dynVars, trainVars,
               simVars>>
gridStructure == <<nodes, branches, total_inertia, network_dict, next_uid>>

(***************************************************************************)
(* Part 1: PowerGrid                                                       *)
(***************************************************************************)

\* Bounds of the explored grids.
MaxNodes == 2          \* Node objects created over the life of a grid
MaxConnections == 1    \* entries of network_dict["simulation"]["connections"]
MaxInitNodes == 2      \* nodes of the description given to the constructor
MaxInitConns == 1      \* connections of the description given to the constructor

None == "none"         \* Python None where an id is expected
NoVal == -1            \* an absent numeric setting
NodeIds == {"a", "b"}
ConnIds == {"c1"}

\* Inertia is counted in halves: 2 is 1.0.  A missing "inertia" setting is
\* replaced by np.random.rand(), a draw from [0, 1).
Inertias == {2}
RandDraws == {0, 1}

\* A node of the network description: its id (None when the key is absent)
\* and settings.inertia (NoVal when absent).
NodeJsons == [id : NodeIds \cup {None}, inertia : Inertias \cup {NoVal}]
\* A connection of the network description.
ConnJsons == [id : ConnIds, from : NodeIds \cup {None}, to : NodeIds \cup {None}]

NoNode == [id |-> None, inertia |-> NoVal]
NoConn == [id |-> None, from |-> None, to |-> None]

RECURSIVE SumInertia(_, _)
SumInertia(f, S) ==
    IF S = {} THEN 0
    ELSE LET x == CHOOSE y \in S : TRUE
         IN f[x].inertia + SumInertia(f, S \ {x})

\* dict[key] = value
Put(f, k, v) == [x \in (DOMAIN f) \cup {k} |-> IF x = k THEN v ELSE f[x]]
\* del dict[key]
Del(f, k) == [x \in (DOMAIN f) \ {k} |-> f[x]]

\* Node(agent, node_id, inertia, friction, dt, target_hz) as PowerGrid builds it;
\* uid is the identity of the Python object, which Branch endpoints refer to.
Node(uid, node_id, inertia) ==
    [uid |-> uid, id |-> node_id, inertia |-> inertia, connections |-> <<>>]

\* Branch(node0, node1, capacity, transmission_factor): endpoints are
\* references to Node objects.
Branch(n0, n1) ==
    [node0 |-> [uid |-> n0.uid, id |-> n0.id],
     node1 |-> [uid |-> n1.uid, id |-> n1.id]]

Result(op, node, conn, id, val) ==
    [op |-> op, node |-> node, conn |-> conn, id |-> id, val |-> val]

\* ---- PowerGrid.__init__ ------------------------------------------------

\* Lines 24-39: the node loop.  draws[i] is the np.random.rand() value used
\* when node i has no "inertia" setting.
InertiaOf(node_json, draw) ==
    IF node_json.inertia = NoVal THEN draw ELSE node_json.inertia

RECURSIVE CtorNodes(_, _, _)
CtorNodes(ns, draws, i) ==
    IF i = 0 THEN [x \in {} |-> 0]
    ELSE Put(CtorNodes(ns, draws, i - 1), ns[i].id,
             Node(i, ns[i].id, InertiaOf(ns[i], draws[i])))

RECURSIVE CtorInertia(_, _, _)
CtorInertia(ns, draws, i) ==
    IF i = 0 THEN 0
    ELSE CtorInertia(ns, draws, i - 1) + InertiaOf(ns[i], draws[i])

\* Lines 42-53: the connection loop.  A connection is turned into a Branch
\* only when both ends are nodes; otherwise the loop moves on.
RECURSIVE CtorBranches(_, _, _)
CtorBranches(nds, cs, i) ==
    IF i = 0 THEN [x \in {} |-> <<>>]
    ELSE LET prev == CtorBranches(nds, cs, i - 1)
             c == cs[i]
             get(b, k) == IF k \in DOMAIN b THEN b[k] ELSE <<>>
         IN IF c.from \in DOMAIN nds /\ c.to \in DOMAIN nds
            THEN LET nb == Branch(nds[c.from], nds[c.to])
                     b1 == Put(prev, c.from, Append(get(prev, c.from), nb))
                 IN Put(b1, c.to, Append(get(b1, c.to), nb))
            ELSE prev

\* Lines 56-57: self.branches is a defaultdict, so reading branches[node_id]
\* creates the empty list of a node without branches.
CtorAdjacency(nds, cs) ==
    LET b == CtorBranches(nds, cs, Len(cs))
    IN [k \in DOMAIN nds |-> IF k \in DOMAIN b THEN b[k] ELSE <<>>]

DistinctIds(ns) == \A i, j \in 1..Len(ns) : i # j => ns[i].id # ns[j].id

\* The network descriptions a grid is constructed from.
InitNodeLists ==
    {ns \in UNION {[1..n -> NodeJsons] : n \in 0..MaxInitNodes} :
        DistinctIds(ns) /\ \A i \in 1..Len(ns) : ns[i].id # None}
InitConnLists ==
    {cs \in UNION {[1..n -> ConnJsons] : n \in 0..MaxInitConns} :
        \A i \in 1..Len(cs) : cs[i].from # None /\ cs[i].to # None}

GridInit ==
    \E ns \in InitNodeLists, cs \in InitConnLists :
    \E draws \in [1..Len(ns) -> RandDraws] :
        LET nds == CtorNodes(ns, draws, Len(ns))
            adj == CtorAdjacency(nds, cs)
        IN /\ \A i \in 1..Len(ns) : ns[i].inertia # NoVal => draws[i] = 0
           /\ nodes = [k \in DOMAIN nds |-> [nds[k] EXCEPT !.connections = adj[k]]]
           /\ branches = adj
           /\ total_inertia = CtorInertia(ns, draws, Len(ns))
           /\ network_dict = [nodes |-> ns, connections |-> cs]
           /\ next_uid = Len(ns) + 1
           /\ ret = Result("__init__", NoNode, NoConn, None, "ok")

\* ---- PowerGrid.get_node_state ------------------------------------------

\* The first node of the stored description with that id, or None.
FirstWithId(ns, node_id) ==
    LET hits == {i \in 1..Len(ns) : ns[i].id = node_id}
    IN IF hits = {} THEN NoNode
       ELSE ns[CHOOSE i \in hits : \A j \in hits : i <= j]

get_node_state(node_id) ==
    /\ ret' = Result("get_node_state", FirstWithId(network_dict.nodes, node_id),
                     NoConn, node_id,
                     IF FirstWithId(network_dict.nodes, node_id) = NoNode
                     THEN "None" ELSE "found")
    /\ UNCHANGED <<nodes, branches, total_inertia, network_dict, next_uid>>

\* ---- PowerGrid.add_node ------------------------------------------------

add_node(node_json, draw) ==
    IF node_json.id = None
    THEN /\ ret' = Result("add_node", node_json, NoConn, None, "False")
         /\ UNCHANGED <<nodes, branches, total_inertia, network_dict, next_uid>>
    ELSE LET inertia == InertiaOf(node_json, draw)
             new_node == Node(next_uid, node_json.id, inertia)
         IN /\ nodes' = Put(nodes, node_json.id, new_node)
            /\ total_inertia' = total_inertia + inertia
            /\ branches' = Put(branches, node_json.id, <<>>)
            /\ network_dict' = [network_dict EXCEPT
                                   !.nodes = Append(@, node_json)]
            /\ next_uid' = next_uid + 1
            /\ ret' = Result("add_node", node_json, NoConn, node_json.id, "True")

\* ---- PowerGrid.add_connection ------------------------------------------

\* A connection whose "from" or "to" is missing or is not a node of the grid.
UnknownEnd(c) ==
    \/ c.from = None \/ c.to = None
    \/ c.from \notin DOMAIN nodes \/ c.to \notin DOMAIN nodes

\* add_connection with the existence test joined by "and": one known end is
\* enough to pass it, and building the Branch then fails on the unknown one.
add_connection_and(connection_json) ==
    LET from_id == connection_json.from
        to_id == connection_json.to
    IN IF from_id = None \/ to_id = None
       THEN /\ ret' = Result("add_connection", NoNode, connection_json, None, "False")
            /\ UNCHANGED <<nodes, branches, total_inertia, network_dict, next_uid>>
       ELSE IF from_id \notin DOMAIN nodes /\ to_id \notin DOMAIN nodes
       THEN /\ ret' = Result("add_connection", NoNode, connection_json, None, "False")
            /\ UNCHANGED <<nodes, branches, total_inertia, network_dict, next_uid>>
       ELSE IF from_id \notin DOMAIN nodes \/ to_id \notin DOMAIN nodes
       THEN /\ ret' = Result("add_connection", NoNode, connection_json, None, "raised")
            /\ UNCHANGED <<nodes, branches, total_inertia, network_dict, next_uid>>
       ELSE LET new_branch == Branch(nodes[from_id], nodes[to_id])
                b1 == [branches EXCEPT ![from_id] = Append(@, new_branch)]
                b2 == [b1 EXCEPT ![to_id] = Append(@, new_branch)]
            IN /\ branches' = b2
               /\ nodes' = [k \in DOMAIN nodes |->
                              IF k \in {from_id, to_id}
                              THEN [nodes[k] EXCEPT !.connections = b2[k]]
                              ELSE nodes[k]]
               /\ network_dict' = [network_dict EXCEPT
                                      !.connections = Append(@, connection_json)]
               /\ ret' = Result("add_connection", NoNode, connection_json, None, "True")
               /\ UNCHANGED <<total_inertia, next_uid>>

add_connection(connection_json) ==
    LET from_id == connection_json.from
        to_id == connection_json.to
    IN IF from_id = None \/ to_id = None
       THEN /\ ret' = Result("add_connection", NoNode, connection_json, None, "False")
            /\ UNCHANGED <<nodes, branches, total_inertia, network_dict, next_uid>>
       ELSE IF from_id \notin DOMAIN nodes \/ to_id \notin DOMAIN nodes
       THEN /\ ret' = Result("add_connection", NoNode, connection_json, None, "False")
            /\ UNCHANGED <<nodes, branches, total_inertia, network_dict, next_uid>>
       ELSE LET new_branch == Branch(nodes[from_id], nodes[to_id])
                b1 == [branches EXCEPT ![from_id] = Append(@, new_branch)]
                b2 == [b1 EXCEPT ![to_id] = Append(@, new_branch)]
            IN /\ branches' = b2
               /\ nodes' = [k \in DOMAIN nodes |->
                              IF k \in {from_id, to_id}
                              THEN [nodes[k] EXCEPT !.connections = b2[k]]
                              ELSE nodes[k]]
               /\ network_dict' = [network_dict EXCEPT
                                      !.connections = Append(@, connection_json)]
               /\ ret' = Result("add_connection", NoNode, connection_json, None, "True")
               /\ UNCHANGED <<total_inertia, next_uid>>

\* ---- PowerGrid.remove_connection ---------------------------------------

\* class PowerGrid defines no remove_connection: the attribute lookup made by
\* remove_node (line 246), by the server handler and by the driver raises
\* AttributeError, whatever the id.
remove_connection(connection_id) ==
    /\ ret' = Result("remove_connection", NoNode, NoConn, connection_id, "raised")
    /\ UNCHANGED <<nodes, branches, total_inertia, network_dict, next_uid>>

\* ---- PowerGrid.remove_node ---------------------------------------------

ConnectionsToRemove(node_id) ==
    SelectSeq(network_dict.connections,
              LAMBDA conn : conn.from = node_id \/ conn.to = node_id)

remove_node(node_id) ==
    IF node_id \notin DOMAIN nodes
    THEN /\ ret' = Result("remove_node", NoNode, NoConn, node_id, "False")
         /\ UNCHANGED <<nodes, branches, total_inertia, network_dict, next_uid>>
    ELSE IF ConnectionsToRemove(node_id) # <<>>
    THEN \* the first self.remove_connection(conn_id) raises; nothing was
         \* changed before it
         /\ ret' = Result("remove_node", NoNode, NoConn, node_id, "raised")
         /\ UNCHANGED <<nodes, branches, total_inertia, network_dict, next_uid>>
    ELSE /\ total_inertia' = total_inertia - nodes[node_id].inertia
         /\ nodes' = Del(nodes, node_id)
         /\ branches' = Del(branches, node_id)
         /\ network_dict' = [network_dict EXCEPT
                                !.nodes = SelectSeq(@, LAMBDA n : n.id # node_id)]
         /\ ret' = Result("remove_node", NoNode, NoConn, node_id, "True")
         /\ UNCHANGED next_uid

(***************************************************************************)
(* Part 2: RolloutBuffer and PPOAgent.update                               *)
(***************************************************************************)

BufferSize == 2        \* buffer_size of the explored buffer
MaxUpdates == 2        \* completed PPO updates explored

\* Numbers are points of a lattice whose even points are the float32 values;
\* an odd point is a Python float that float32 cannot represent.  One is 1.0.
One == 2
Float32(x) ==
    IF x % 2 = 0 THEN x
    ELSE IF (x + 1) % 4 = 0 THEN x + 1 ELSE x - 1

\* The transitions offered to add: obs (obs_dim = 1), action, reward, value,
\* log_prob, done.
Transitions ==
    { [obs |-> <<2>>, action |-> 2, reward |-> 1, value |-> 2,
       log_prob |-> -2, done |-> FALSE],
      [obs |-> <<4>>, action |-> -2, reward |-> 2, value |-> 0,
       log_prob |-> -4, done |-> TRUE],
      [obs |-> <<0>>, action |-> 0, reward |-> -2, value |-> 4,
       log_prob |-> 0, done |-> FALSE] }

Slots == 1..BufferSize

\* RolloutBuffer.reset: fresh zero arrays, pointer at the start.
reset ==
    /\ observations' = [i \in Slots |-> <<0>>]
    /\ actions' = [i \in Slots |-> <<0>>]
    /\ rewards' = [i \in Slots |-> 0]
    /\ values' = [i \in Slots |-> 0]
    /\ log_probs' = [i \in Slots |-> 0]
    /\ dones' = [i \in Slots |-> 0]
    /\ ptr' = 0
    /\ path_start_idx' = 0
    /\ added' = <<>>

NoData ==
    [observations |-> <<>>, actions |-> <<>>, rewards |-> <<>>,
     values |-> <<>>, log_probs |-> <<>>, dones |-> <<>>]

BufResult(op, val, data) == [op |-> op, val |-> val, data |-> data]

\* RolloutBuffer.__init__ and PPOAgent.__init__
BufInit ==
    /\ observations = [i \in Slots |-> <<0>>]
    /\ actions = [i \in Slots |-> <<0>>]
    /\ rewards = [i \in Slots |-> 0]
    /\ values = [i \in Slots |-> 0]
    /\ log_probs = [i \in Slots |-> 0]
    /\ dones = [i \in Slots |-> 0]
    /\ ptr = 0
    /\ path_start_idx = 0
    /\ added = <<>>
    /\ policy = "finite"
    /\ training_step = 0
    /\ bret = BufResult("__init__", "ok", NoData)

\* add as a ring: a full buffer starts again at its first slot.
add_ring(t) ==
    LET slot == IF ptr >= BufferSize THEN 1 ELSE ptr + 1
    IN /\ observations' = [observations EXCEPT
                              ![slot] = [k \in DOMAIN t.obs |-> Float32(t.obs[k])]]
       /\ actions' = [actions EXCEPT ![slot] = <<Float32(t.action)>>]
       /\ rewards' = [rewards EXCEPT ![slot] = Float32(t.reward)]
       /\ values' = [values EXCEPT ![slot] = Float32(t.value)]
       /\ log_probs' = [log_probs EXCEPT ![slot] = Float32(t.log_prob)]
       /\ dones' = [dones EXCEPT ![slot] = IF t.done THEN One ELSE 0]
       /\ ptr' = slot
       /\ path_start_idx' = IF t.done THEN slot ELSE path_start_idx
       /\ added' = Append(added, t)
       /\ bret' = BufResult("add", "True", NoData)
       /\ UNCHANGED <<policy, training_step>>

\* RolloutBuffer.add.  Python indexes from 0, the arrays here from 1: the
\* slot written is ptr + 1.
add(t) ==
    IF ptr >= BufferSize
    THEN /\ bret' = BufResult("add", "False", NoData)
         /\ UNCHANGED <<observations, actions, rewards, values, log_probs,
                        dones, ptr, path_start_idx, added, policy, training_step>>
    ELSE /\ observations' = [observations EXCEPT
                                ![ptr + 1] = [k \in DOMAIN t.obs |-> Float32(t.obs[k])]]
         /\ actions' = [actions EXCEPT ![ptr + 1] = <<Float32(t.action)>>]
         /\ rewards' = [rewards EXCEPT ![ptr + 1] = Float32(t.reward)]
         /\ values' = [values EXCEPT ![ptr + 1] = Float32(t.value)]
         /\ log_probs' = [log_probs EXCEPT ![ptr + 1] = Float32(t.log_prob)]
         /\ dones' = [dones EXCEPT ![ptr + 1] = IF t.done THEN One ELSE 0]
         /\ ptr' = ptr + 1
         /\ path_start_idx' = IF t.done THEN ptr + 1 ELSE path_start_idx
         /\ added' = Append(added, t)
         /\ bret' = BufResult("add", "True", NoData)
         /\ UNCHANGED <<policy, training_step>>

\* get with the slice one short of the pointer.
GetData_short ==
    [observations |-> [i \in 1..(ptr - 1) |-> observations[i]],
     actions      |-> [i \in 1..(ptr - 1) |-> actions[i]],
     rewards      |-> [i \in 1..(ptr - 1) |-> rewards[i]],
     values       |-> [i \in 1..(ptr - 1) |-> values[i]],
     log_probs    |-> [i \in 1..(ptr - 1) |-> log_probs[i]],
     dones        |-> [i \in 1..(ptr - 1) |-> dones[i]]]

\* What RolloutBuffer.get returns: the six arrays up to the pointer.
GetData ==
    [observations |-> [i \in 1..ptr |-> observations[i]],
     actions      |-> [i \in 1..ptr |-> actions[i]],
     rewards      |-> [i \in 1..ptr |-> rewards[i]],
     values       |-> [i \in 1..ptr |-> values[i]],
     log_probs    |-> [i \in 1..ptr |-> log_probs[i]],
     dones        |-> [i \in 1..ptr |-> dones[i]]]

get ==
    /\ bret' = BufResult("get", "data", GetData)
    /\ UNCHANGED <<observations, actions, rewards, values, log_probs, dones,
                   ptr, path_start_idx, added, policy, training_step>>

\* RolloutBuffer.clear
clear ==
    /\ reset
    /\ bret' = BufResult("clear", "None", NoData)
    /\ UNCHANGED <<policy, training_step>>

\* ---- PPOAgent.update ---------------------------------------------------

NEpochs == 10          \* n_epochs
BatchSize == 64        \* batch_size

\* range(0, len(obs), batch_size): the minibatches of one epoch
Minibatches(n) == (n + BatchSize - 1) \div BatchSize

\* Line 98: (advantages - mean) / (std + 1e-8).  torch's std of a single
\* element is NaN, so a rollout of one transition is normalised to NaN.
AdvantagesNaN(n) == n = 1

\* Lines 109-167, k minibatch passes to go.  A pass runs the policy forward
\* (Policy.get_action_and_value builds Normal(mean, std): with NaN parameters
\* the constructor raises ValueError when the distribution validates its
\* arguments), computes the loss and steps the optimizer.  Nothing tests the
\* loss: a NaN loss gives NaN gradients and the step makes the parameters NaN.
RECURSIVE RunPasses(_, _, _, _)
RunPasses(k, pol, advNaN, validate_args) ==
    IF k = 0 THEN [policy |-> pol, raised |-> FALSE]
    ELSE IF pol = "nan" /\ validate_args
    THEN [policy |-> pol, raised |-> TRUE]
    ELSE RunPasses(k - 1,
                   IF advNaN \/ pol = "nan" THEN "nan" ELSE pol,
                   advNaN, validate_args)

\* validate_args: whether torch.distributions validates parameters (the
\* default of current torch; off in old releases and under python -O).
update(validate_args) ==
    IF ptr = 0
    THEN /\ bret' = BufResult("update", "{}", NoData)
         /\ UNCHANGED <<observations, actions, rewards, values, log_probs,
                        dones, ptr, path_start_idx, added, policy, training_step>>
    ELSE LET out == RunPasses(NEpochs * Minibatches(ptr), policy,
                              AdvantagesNaN(ptr), validate_args)
         IN IF out.raised
            THEN /\ policy' = out.policy
                 /\ bret' = BufResult("update", "raised", NoData)
                 /\ UNCHANGED <<observations, actions, rewards, values,
                                log_probs, dones, ptr, path_start_idx, added,
                                training_step>>
            ELSE /\ policy' = out.policy
                 /\ reset
                 /\ training_step' = training_step + 1
                 \* every loss.item() is added to total_loss: one NaN loss
                 \* makes the reported statistics NaN
                 /\ bret' = BufResult("update",
                                      IF out.policy = "nan" THEN "stats_nan"
                                      ELSE "stats",
                                      NoData)

\* ---- PPOContinuous.update ----------------------------------------------

NetInit ==
    /\ network = [policy_steps |-> 0, value_steps |-> 0]
    /\ nret = [op |-> "__init__", policy_loss |-> "none", value_loss |-> "none",
               nan_policy_loss |-> FALSE, nan_value_loss |-> FALSE]

\* PPOContinuous.update(states, actions, rewards, old_logprobs) on n
\* transitions; nan_rewards: the rewards hold a NaN.  The returns are the
\* unnormalised advantages plus the values, NaN when a reward is; the
\* advantages are zeros for one transition (line 87) and NaN with the
\* returns otherwise.  Lines 119 and 134 test each loss before its optimizer
\* steps, so the parameters stay finite.
ppo_update(n, nan_rewards) ==
    LET returns_nan == n > 0 /\ nan_rewards
        advs_nan == n > 1 /\ nan_rewards
    IN IF n = 0
       THEN /\ nret' = [op |-> "update", policy_loss |-> "zero", value_loss |-> "zero",
                        nan_policy_loss |-> FALSE, nan_value_loss |-> FALSE]
            /\ UNCHANGED network
       ELSE /\ network' = [policy_steps |-> IF advs_nan THEN network.policy_steps
                                            ELSE network.policy_steps + 1,
                           value_steps |-> IF returns_nan THEN network.value_steps
                                           ELSE network.value_steps + 1]
            /\ nret' = [op |-> "update",
                        policy_loss |-> IF advs_nan THEN "zero" ELSE "finite",
                        value_loss |-> IF returns_nan THEN "zero" ELSE "finite",
                        nan_policy_loss |-> advs_nan,
                        nan_value_loss |-> returns_nan]

(***************************************************************************)
(* Part 3: battery state of charge                                         *)
(***************************************************************************)

\* Fixed point: soc is counted in 1/SocUnits, energy in 1/SocUnits kWh, an
\* action in 1/ActionUnits; division truncates.
SocUnits == 100
ActionUnits == 10
EffNum == 9            \* efficiency = 0.9
EffDen == 10

\* (capacity, charge_rate) of the storage nodes of the default grid
Batteries ==
    { [capacity |-> 50, charge_rate |-> 40],
      [capacity |-> 40, charge_rate |-> 30],
      [capacity |-> 35, charge_rate |-> 25] }

\* Action values given to the battery, some outside [-1, 1].
ActionValues == {-20, -10, -5, 0, 5, 10, 20}

Min(a, b) == IF a <= b THEN a ELSE b
Max(a, b) == IF a >= b THEN a ELSE b
Abs(a) == IF a < 0 THEN -a ELSE a

\* max(0, min(1, soc))
ClampSoc(x) == Max(0, Min(SocUnits, x))

BatResult(op, action) == [op |-> op, action |-> action]

\* BatteryAgent.__init__, with any state of charge in [0, 1]
BatInit ==
    /\ battery \in Batteries
    /\ soc \in 0..SocUnits
    /\ delta_e = 0
    /\ aret = BatResult("__init__", 0)

\* BatteryAgent.act
act(action) ==
    LET a == Max(-ActionUnits, Min(ActionUnits, action))
        max_charge == Min(battery.charge_rate * SocUnits,
                          (SocUnits - soc) * battery.capacity)
        actual_charge == (a * max_charge) \div ActionUnits
        max_discharge == Min(battery.charge_rate * SocUnits,
                             soc * battery.capacity)
        actual_discharge == (Abs(a) * max_discharge) \div ActionUnits
    IN /\ IF a > 0
          THEN /\ delta_e' = actual_charge
               /\ soc' = ClampSoc(soc + (actual_charge * EffNum)
                                          \div (EffDen * battery.capacity))
          ELSE IF a < 0
          THEN /\ delta_e' = -actual_discharge
               /\ soc' = ClampSoc(soc - actual_discharge \div battery.capacity)
          ELSE /\ delta_e' = 0
               /\ soc' = ClampSoc(soc)
       /\ aret' = BatResult("act", action)
       /\ UNCHANGED battery

\* step without the max(0, min(1, ...)) around the new soc.
step_unclamped(action, dt) ==
    LET wanted == (action * battery.charge_rate * SocUnits) \div ActionUnits
        charge_discharge ==
            IF wanted > 0 /\ soc <= SocUnits \div 10 THEN 0
            ELSE IF wanted < 0 /\ soc >= (9 * SocUnits) \div 10 THEN 0
            ELSE wanted
        soc_change == (-(charge_discharge * dt)) \div battery.capacity
    IN /\ delta_e' = charge_discharge
       /\ soc' = soc + soc_change
       /\ aret' = BatResult("step", action)
       /\ UNCHANGED battery

\* SimpleTrainingEnv.step, the BatteryAgent branch (lines 56-71); dt is the
\* environment's step length.  The grid.time_step call that ends step does
\* not reach the agents and leaves soc as this branch set it.
step(action, dt) ==
    LET wanted == (action * battery.charge_rate * SocUnits) \div ActionUnits
        charge_discharge ==
            IF wanted > 0 /\ soc <= SocUnits \div 10 THEN 0
            ELSE IF wanted < 0 /\ soc >= (9 * SocUnits) \div 10 THEN 0
            ELSE wanted
        soc_change == (-(charge_discharge * dt)) \div battery.capacity
    IN /\ delta_e' = charge_discharge
       /\ soc' = ClampSoc(soc + soc_change)
       /\ aret' = BatResult("step", action)
       /\ UNCHANGED battery

StepDts == {1}

(***************************************************************************)
(* Part 4: power of the producer, consumer and business agents             *)
(***************************************************************************)

\* Fixed point: delta_e is counted in 1/PowerUnits, an action in 1/ActionUnits.
PowerUnits == 100

\* The agents of the default grid: class and the "power" setting that becomes
\* max_output, energy_consumption or baseline_consumption.
Agents ==
    { [type |-> "ProducerAgent", size |-> 60],
      [type |-> "ConsumerAgent", size |-> 40],
      [type |-> "BusinessAgent", size |-> 70] }

AgentInit ==
    /\ agent \in Agents
    /\ agent_delta_e = 0
    /\ pret = BatResult("__init__", 0)

\* ProducerAgent.act: action is what policy.select_action returned.
\* scaled_action = max(0, min(1, (action + 1) / 2)); delta_e = scaled * max_output
ProducerAct(action) ==
    LET scaled_action == Max(0, Min(PowerUnits,
                             ((action + ActionUnits) * PowerUnits) \div (2 * ActionUnits)))
    IN /\ agent.type = "ProducerAgent"
       /\ agent_delta_e' = scaled_action * agent.size
       /\ pret' = BatResult("act", action)
       /\ UNCHANGED agent

\* ConsumerAgent.act: action = max(0.5, min(2.0, action)); delta_e = -action * e
ConsumerAct(action) ==
    LET a == Max(ActionUnits \div 2, Min(2 * ActionUnits, action))
    IN /\ agent.type = "ConsumerAgent"
       /\ agent_delta_e' = -((a * PowerUnits) \div ActionUnits) * agent.size
       /\ pret' = BatResult("act", action)
       /\ UNCHANGED agent

\* BusinessAgent.act: action = max(0.3, min(1.5, action)); delta_e = -action * b
BusinessAct(action) ==
    LET a == Max((3 * ActionUnits) \div 10, Min((15 * ActionUnits) \div 10, action))
    IN /\ agent.type = "BusinessAgent"
       /\ agent_delta_e' = -((a * PowerUnits) \div ActionUnits) * agent.size
       /\ pret' = BatResult("act", action)
       /\ UNCHANGED agent

\* SimpleTrainingEnv.step, the ProducerAgent, ConsumerAgent and BusinessAgent
\* branches (lines 46-54 and 73-78).  Only the business branch clamps.
AgentStep(action) ==
    /\ agent_delta_e' =
          CASE agent.type = "ProducerAgent" ->
                 (((action + ActionUnits) * PowerUnits) \div (2 * ActionUnits))
                 * agent.size
            [] agent.type = "ConsumerAgent" ->
                 -((((action + ActionUnits) * PowerUnits) \div (2 * ActionUnits))
                   * agent.size * 2)
            [] agent.type = "BusinessAgent" ->
                 LET scaled_action ==
                        Max((3 * PowerUnits) \div 10,
                            Min((15 * PowerUnits) \div 10,
                                (9 * PowerUnits) \div 10
                                + (action * 6 * PowerUnits) \div (10 * ActionUnits)))
                 IN -(scaled_action * agent.size)
    /\ pret' = BatResult("step", action)
    /\ UNCHANGED agent

(***************************************************************************)
(* Part 5: PowerGrid pricing and tick                                      *)
(***************************************************************************)

PriceUnits == 100
Micro == 1000000       \* 1 / 1e-6

\* The dt given to PowerGrid(network_dict, dt), in whole minutes.
Dts == {360, 480, 720, 2000}

NoTick == [temperature |-> NoVal, time_of_day |-> NoVal, order |-> <<>>,
           events |-> <<>>]
NoDay == [calls |-> <<>>]

TickInit ==
    /\ price = NoVal
    /\ grid_dt \in Dts
    /\ grid_frequency = 60       \* target_hz
    /\ tick = NoTick
    /\ day = NoDay

\* Lines 96-104, from the two totals (counted in 1/PowerUnits):
\* min(200, max(10, 50 * (0.5 + total_demand / (total_supply + 1e-6)))) when
\* total_supply > 0, else 150.
PriceOf(total_supply, total_demand) ==
    IF total_supply > 0
    THEN Min(200 * PriceUnits,
             Max(10 * PriceUnits,
                 25 * PriceUnits
                 + (50 * PriceUnits * total_demand * Micro)
                   \div (total_supply * Micro + PowerUnits)))
    ELSE 150 * PriceUnits

\* PowerGrid.calculate_electricity_price.  self.nodes is the dict built by
\* __init__ (line 20, keyed by node id), and line 89 iterates it directly:
\* `node` is a key, and `node.agent` (line 90) raises AttributeError in the
\* first iteration.  Only a grid without nodes gets past the loop, with both
\* totals 0.
calculate_electricity_price ==
    IF DOMAIN nodes = {}
    THEN /\ price' = PriceOf(0, 0)
         /\ ret' = Result("calculate_electricity_price", NoNode, NoConn, None, "price")
         /\ UNCHANGED <<gridStructure, grid_dt, grid_frequency, tick, day>>
    ELSE /\ price' = NoVal
         /\ ret' = Result("calculate_electricity_price", NoNode, NoConn, None, "raised")
         /\ UNCHANGED <<gridStructure, grid_dt, grid_frequency, tick, day>>

\* ---- PowerGrid.time_step ------------------------------------------------

\* The orders in which the values of a dict with these keys can be visited.
OrdersOf(S) ==
    { o \in [1..Cardinality(S) -> S] : \A i, j \in 1..Cardinality(S) : o[i] = o[j] => i = j }

Event(line, what, node, val) == [line |-> line, what |-> what, node |-> node, val |-> val]

\* Lines 118-119, 122-124 and 138-141 are loops over self.nodes, visited in
\* the given order from its k-th entry on.
RECURSIVE NodeSteps(_, _)
NodeSteps(order, k) ==
    IF k > Len(order) THEN <<>>
    ELSE <<Event(119, "node.time_step", order[k], NoVal)>> \o NodeSteps(order, k + 1)
RECURSIVE Transmissions(_, _)
Transmissions(order, k) ==
    IF k > Len(order) THEN <<>>
    ELSE <<Event(124, "node.get_transmission", order[k], NoVal)>>
         \o Transmissions(order, k + 1)
RECURSIVE Rewards(_, _, _)
Rewards(order, k, prev_cost) ==
    IF k > Len(order) THEN <<>>
    ELSE <<Event(140, "compute_reward", order[k], prev_cost),
           Event(141, "update_reward", order[k], NoVal)>>
         \o Rewards(order, k + 1, prev_cost)

\* What one time_step does.  Line 110 calls calculate_electricity_price
\* before anything else; with a node in the grid that call raises and the
\* exception leaves time_step, so the loops below it only ever run over an
\* empty dict.  temperature is not read.  Lines 121-126 add up
\* node.inertia * node.get_transmission() into pertubation (0 over the empty
\* dict) and print it; nothing divides it by total_inertia and no statement
\* of time_step assigns self.grid_frequency.
TimeStepEvents(order) ==
    IF DOMAIN nodes # {}
    THEN <<Event(110, "raised", None, NoVal)>>
    ELSE <<Event(110, "calculate_electricity_price", None, PriceOf(0, 0))>>
         \o NodeSteps(order, 1)
         \o Transmissions(order, 1)
         \o <<Event(126, "pertubation", None, 0)>>
         \o <<Event(129, "calculate_electricity_price", None, PriceOf(0, 0))>>
         \o Rewards(order, 1, PriceOf(0, 0))

TimeStepRaises == DOMAIN nodes # {}

time_step(temperature, time_of_day, order) ==
    /\ tick' = [temperature |-> temperature, time_of_day |-> time_of_day,
                order |-> order, events |-> TimeStepEvents(order)]
    /\ price' = IF TimeStepRaises THEN NoVal ELSE PriceOf(0, 0)
    /\ ret' = Result("time_step", NoNode, NoConn, None,
                     IF TimeStepRaises THEN "raised" ELSE "None")
    /\ UNCHANGED <<gridStructure, grid_dt, grid_frequency, day>>

\* ---- PowerGrid.simulate_day ---------------------------------------------

\* np.linspace(0, 1440 - int(self.dt), num=int(1440/self.dt))
NumTicks == 1440 \div grid_dt
TimeValues ==
    [i \in 1..NumTicks |->
        IF NumTicks = 1 THEN 0 ELSE ((i - 1) * (1440 - grid_dt)) \div (NumTicks - 1)]

\* Lines 148-149: time_step(temps[i], time_values[i]) for i in range(len(temps)),
\* from the i-th call on; an exception of time_step leaves the loop and
\* simulate_day.
RECURSIVE DayCalls(_)
DayCalls(i) ==
    IF i > NumTicks THEN <<>>
    ELSE IF TimeStepRaises THEN <<TimeValues[i]>>
    ELSE <<TimeValues[i]>> \o DayCalls(i + 1)

\* temps[i] is written i: the temperature curve is a draw time_step ignores.
simulate_day(order) ==
    LET calls == DayCalls(1)
        raised == calls # <<>> /\ TimeStepRaises
    IN /\ day' = [calls |-> calls]
       /\ tick' = IF calls = <<>> THEN tick
                  ELSE [temperature |-> Len(calls), time_of_day |-> calls[Len(calls)],
                        order |-> order, events |-> TimeStepEvents(order)]
       /\ price' = IF calls = <<>> THEN price
                   ELSE IF raised THEN NoVal ELSE PriceOf(0, 0)
       /\ ret' = Result("simulate_day", NoNode, NoConn, None,
                        IF raised THEN "raised" ELSE "None")
       /\ UNCHANGED <<gridStructure, grid_dt, grid_frequency>>

(***************************************************************************)
(* Part 6: Branch transmission                                             *)
(***************************************************************************)

\* Fixed point: a phase offset is counted in units of pi/6, a sine and a
\* transmission in 1/SinUnits.
SinUnits == 1000
MaxOffset == 7         \* offsets explored: -MaxOffset..MaxOffset units of pi/6

\* math.sin at k * pi/6, rounded to 1/SinUnits
Sin(k) ==
    LET t == <<0, 500, 866, 1000, 866, 500, 0, -500, -866, -1000, -866, -500>>
    IN t[(k % 12) + 1]

\* (capacity, transmission_factor): the default factor 1.0 under a capacity
\* above and below 1, and a factor above the capacity.
BranchKinds ==
    { [capacity |-> 50 * SinUnits, transmission_factor |-> 1],
      [capacity |-> SinUnits \div 2, transmission_factor |-> 1],
      [capacity |-> 50 * SinUnits, transmission_factor |-> 100] }

\* Branch.__init__ between two nodes whose offsets are whatever the ticks
\* before left in them
BranchInit ==
    /\ branch \in BranchKinds
    /\ offset \in [{0, 1} -> (-MaxOffset)..MaxOffset]
    /\ transmission = 0
    /\ tret = "__init__"

\* get_transmission with the clamp from above only.
get_transmission_min ==
    LET raw == branch.transmission_factor * Sin(offset[1] - offset[0])
    IN /\ transmission' = Min(raw, branch.capacity)
       /\ tret' = "get_transmission"
       /\ UNCHANGED <<branch, offset>>

\* Branch.get_transmission
get_transmission ==
    LET raw == branch.transmission_factor * Sin(offset[1] - offset[0])
    IN /\ transmission' = Max(-branch.capacity, Min(raw, branch.capacity))
       /\ tret' = "get_transmission"
       /\ UNCHANGED <<branch, offset>>

\* Node.time_step, lines 78-79, as the branch sees it: the offset of one end
\* moves by doffset * dt.
MoveOffset(i, d) ==
    /\ offset[i] + d \in (-MaxOffset)..MaxOffset
    /\ offset' = [offset EXCEPT ![i] = @ + d]
    /\ tret' = "time_step"
    /\ UNCHANGED <<branch, transmission>>

(***************************************************************************)
(* Part 7: compute_reward of the four agent classes                        *)
(***************************************************************************)

\* Fixed point: a reward and an episode_reward are counted in 1/RewardUnits,
\* a frequency in tenths of a hertz, the weather index in tenths, soc in
\* percent; delta_e, the sizes and the price are whole numbers.
RewardUnits == 1000
MaxOthers == 1         \* agents of all_agents besides self
MaxRewardCalls == 2    \* compute_reward calls made on one agent

Clamp(lo, x, hi) == Max(lo, Min(hi, x))

RECURSIVE SumSeq(_)
SumSeq(q) == IF q = <<>> THEN 0 ELSE Head(q) + SumSeq(Tail(q))

\* [F(a) for a in q]
Map(q, F(_)) == [i \in 1..Len(q) |-> F(q[i])]

\* np.mean of a non-empty list
Mean(q, F(_)) == SumSeq(Map(q, F)) \div Len(q)

\* An agent as compute_reward reads it: size is max_output,
\* energy_consumption, baseline_consumption or capacity.
AgentTypes == {"ProducerAgent", "ConsumerAgent", "BusinessAgent", "BatteryAgent"}
RewardAgent(t, sz, de, sc, rh) ==
    [type |-> t, size |-> sz, delta_e |-> de, soc |-> sc,
     episode_reward |-> 0, total_arbitrage |-> 0, revenue_history |-> rh]
RewardAgents ==
    {RewardAgent("ProducerAgent", sz, de, 50, rh) :
        sz \in {0, 40}, de \in {0, 30}, rh \in {<<>>, <<20 * RewardUnits>>}}
    \cup {RewardAgent(t, sz, de, 50, <<>>) :
        t \in {"ConsumerAgent", "BusinessAgent"}, sz \in {0, 40}, de \in {-40, 0}}
    \cup {RewardAgent("BatteryAgent", sz, de, sc, <<>>) :
        sz \in {0, 40}, de \in {-40, 0, 30}, sc \in {5, 50}}

\* The other agents of the grid, some ticks into an episode
OtherAgents ==
    [type : AgentTypes,
     size : {40},
     delta_e : {-40, 30},
     soc : {50},
     episode_reward : {-3 * RewardUnits, 2 * RewardUnits},
     total_arbitrage : {100},
     revenue_history : {<<25 * RewardUnits>>}]

OtherLists == UNION {[1..n -> OtherAgents] : n \in 0..MaxOthers}

\* The state dict built by PowerGrid.time_step (lines 132-136)
RewardStates ==
    [frequency : {570, 600, 625}, avg_cost : {10, 50, 150}, temperature : {0, 5}]

OthersOf(q, self) == SelectSeq(q, LAMBDA a : a.type = self.type)

Value(v, self) == [raised |-> FALSE, value |-> Clamp(-RewardUnits, v, RewardUnits), self |-> self]
Raised(self) == [raised |-> TRUE, value |-> 0, self |-> self]

\* ConsumerAgent.compute_reward
ConsumerReward(self, state, others) ==
    LET stability_reward ==
            Clamp(-RewardUnits,
                  RewardUnits - (Abs(state.frequency - 600) * RewardUnits) \div 100,
                  RewardUnits)
        \* energy_consumption * (1 + abs(weather) * 0.3), in 1/RewardUnits
        expected_consumption ==
            self.size * (RewardUnits + (Abs(state.temperature) * 3 * RewardUnits) \div 100)
        actual_consumption == Abs(self.delta_e) * RewardUnits
        consistency_reward ==
            Clamp(-RewardUnits,
                  RewardUnits - (Abs(actual_consumption - expected_consumption) * RewardUnits)
                                \div expected_consumption,
                  RewardUnits)
        consumer_agents == <<self>> \o OthersOf(others, self)
        total_consumption == SumSeq(Map(consumer_agents, LAMBDA a : Abs(a.delta_e)))
        fairness_reward ==
            IF Len(consumer_agents) > 1 /\ total_consumption > 0
            THEN RewardUnits
                 - Abs((Abs(self.delta_e) * RewardUnits) \div total_consumption
                       - RewardUnits \div Len(consumer_agents))
            ELSE 0
        others_penalty ==
            IF others # <<>>
            THEN (-Mean(others, LAMBDA a : a.episode_reward) * 5) \div 100
            ELSE 0
        total_reward ==
            (50 * stability_reward + 30 * consistency_reward
             + 15 * fairness_reward + 5 * others_penalty) \div 100
    IN IF expected_consumption = 0
       THEN Raised(self)       \* line 73: float division by zero
       ELSE Value(total_reward, self)

\* BusinessAgent.compute_reward
BusinessReward(self, state, others) ==
    LET avg_cost == state.avg_cost
        Savings(a) ==
            ((a.size * avg_cost - Abs(a.delta_e) * avg_cost) * RewardUnits)
            \div (a.size * avg_cost)
        baseline_cost == self.size * avg_cost
        cost_savings == IF baseline_cost > 0 THEN Savings(self) ELSE 0
        cost_reward == Clamp(-RewardUnits, cost_savings, RewardUnits)
        consumption_ratio == (Abs(self.delta_e) * RewardUnits) \div self.size
        productivity_penalty ==
            IF consumption_ratio < RewardUnits \div 2
            THEN -2 * (RewardUnits \div 2 - consumption_ratio)
            ELSE 0
        business_agents == <<self>> \o OthersOf(others, self)
        rated == SelectSeq(OthersOf(others, self), LAMBDA a : a.size > 0)
        competition_reward ==
            IF Len(business_agents) > 1 /\ rated # <<>>
            THEN Clamp(-RewardUnits, cost_savings - Mean(rated, Savings), RewardUnits)
            ELSE 0
        stability_reward ==
            (2 * (RewardUnits - (Abs(state.frequency - 600) * RewardUnits) \div 100)) \div 10
        others_penalty ==
            IF others # <<>>
            THEN (-Mean(others, LAMBDA a : a.episode_reward) * 5) \div 100
            ELSE 0
        total_reward ==
            (50 * cost_reward + 20 * competition_reward + 15 * stability_reward
             + 10 * others_penalty + 5 * productivity_penalty) \div 100
    IN IF self.size = 0
       THEN Raised(self)       \* line 74: float division by zero
       ELSE IF Len(business_agents) > 1 /\ rated # <<>> /\ avg_cost = 0
       THEN Raised(self)       \* line 85
       ELSE Value(total_reward, self)

\* BatteryAgent.compute_reward; charge_rate is capacity * 0.5, the default of
\* PowerGrid._create_agent
BatteryReward(self, state, others) ==
    LET avg_cost == state.avg_cost
        charge_rate == self.size \div 2
        transaction_profit ==
            IF self.delta_e > 0 THEN -(self.delta_e * avg_cost)
            ELSE IF self.delta_e < 0 THEN Abs(self.delta_e) * avg_cost
            ELSE 0
        total_arbitrage == self.total_arbitrage + transaction_profit
        arbitrage_reward ==
            Clamp(-RewardUnits, (transaction_profit * RewardUnits) \div 10, RewardUnits)
        frequency_deviation == Abs(state.frequency - 600)
        impact_reward ==
            IF Abs(self.delta_e) > 0
            THEN IF charge_rate = 0
                 THEN RewardUnits      \* deviation * |delta_e| / 1e-8, capped at 1
                 ELSE Min(RewardUnits,
                          (frequency_deviation * Abs(self.delta_e) * RewardUnits)
                          \div (10 * charge_rate * 5))
            ELSE 0
        battery_agents == <<self>> \o OthersOf(others, self)
        competition_reward ==
            IF Len(battery_agents) > 1
            THEN Clamp(-RewardUnits,
                       ((total_arbitrage
                         - Mean(OthersOf(others, self), LAMBDA a : a.total_arbitrage))
                        * RewardUnits) \div 20,
                       RewardUnits)
            ELSE 0
        soc_penalty ==
            IF self.soc < 10 THEN -((2 * (10 - self.soc) * RewardUnits) \div 100)
            ELSE IF self.soc > 90 THEN -((2 * (self.soc - 90) * RewardUnits) \div 100)
            ELSE 0
        exploitation_reward ==
            IF others # <<>>
            THEN (-Mean(others, LAMBDA a : a.episode_reward) * 10) \div 100
            ELSE 0
        total_reward ==
            (40 * arbitrage_reward + 20 * impact_reward + 20 * competition_reward
             + 10 * exploitation_reward + 10 * soc_penalty) \div 100
    IN Value(total_reward, [self EXCEPT !.total_arbitrage = total_arbitrage])

\* self.revenue_history[-10:]
Last10(q) == SubSeq(q, Max(1, Len(q) - 9), Len(q))

\* ProducerAgent.compute_reward; production_cost is 30
ProducerReward(self, state, others) ==
    LET current_price == state.avg_cost
        frequency == state.frequency
        freq_deviation == Abs(frequency - 600)
        stability_reward ==
            IF freq_deviation < 5 THEN RewardUnits
            ELSE IF freq_deviation < 10 THEN RewardUnits \div 2
            ELSE IF freq_deviation < 20 THEN 0
            ELSE -((freq_deviation * RewardUnits) \div 50)
        revenue == (self.delta_e * current_price * RewardUnits) \div 60
        revenue_history ==
            IF self.delta_e > 0 THEN Append(self.revenue_history, revenue)
            ELSE self.revenue_history
        profit_reward ==
            IF self.delta_e > 0
            THEN IF 10 * (current_price - 30) > 5 * 30 THEN (8 * RewardUnits) \div 10
                 ELSE IF 10 * (current_price - 30) > 2 * 30 THEN (4 * RewardUnits) \div 10
                 ELSE IF current_price - 30 > 0 THEN RewardUnits \div 10
                 ELSE -(RewardUnits \div 2)
            ELSE -((2 * RewardUnits) \div 10)
        utilization ==
            IF self.size > 0 THEN (self.delta_e * RewardUnits) \div self.size ELSE 0
        strategy_reward ==
            IF current_price > 60
            THEN IF 10 * utilization > 7 * RewardUnits
                 THEN RewardUnits \div 2 ELSE -((2 * RewardUnits) \div 10)
            ELSE IF current_price < 40
            THEN IF 10 * utilization < 3 * RewardUnits
                 THEN (3 * RewardUnits) \div 10 ELSE -((2 * RewardUnits) \div 10)
            ELSE 0
        response_reward ==
            IF frequency < 595 /\ 10 * self.delta_e > self.size * 5
            THEN (3 * RewardUnits) \div 10
            ELSE IF frequency > 605 /\ 10 * self.delta_e < self.size * 3
            THEN (3 * RewardUnits) \div 10
            ELSE IF frequency < 590 /\ 10 * self.delta_e < self.size * 5
            THEN -(RewardUnits \div 2)
            ELSE IF frequency > 610 /\ 10 * self.delta_e > self.size * 7
            THEN -(RewardUnits \div 2)
            ELSE 0
        producer_agents == <<self>> \o OthersOf(others, self)
        my_avg_revenue == Mean(Last10(revenue_history), LAMBDA x : x)
        beaten ==
            SelectSeq(OthersOf(others, self),
                      LAMBDA other :
                          /\ other.revenue_history # <<>>
                          /\ my_avg_revenue
                             > Mean(Last10(other.revenue_history), LAMBDA x : x))
        competition_reward ==
            IF Len(producer_agents) > 1 /\ revenue_history # <<>>
            THEN Clamp(-(RewardUnits \div 2), Len(beaten) * (RewardUnits \div 10),
                       RewardUnits \div 2)
            ELSE 0
        total_reward ==
            (40 * stability_reward + 30 * profit_reward + 15 * strategy_reward
             + 10 * response_reward + 5 * competition_reward) \div 100
    IN Value(total_reward, [self EXCEPT !.revenue_history = revenue_history])

\* The agent, the state of the tick and the other agents of the grid, before
\* the first compute_reward
RewardInit ==
    /\ rw \in [self : RewardAgents, state : RewardStates, others : OtherLists,
                calls : {0}]
    /\ reward = 0
    /\ rret = "__init__"

\* agent.compute_reward(state, all_agents), all_agents being self and others
compute_reward(self, state, others) ==
    LET out == CASE self.type = "ProducerAgent" -> ProducerReward(self, state, others)
                 [] self.type = "ConsumerAgent" -> ConsumerReward(self, state, others)
                 [] self.type = "BusinessAgent" -> BusinessReward(self, state, others)
                 [] self.type = "BatteryAgent" -> BatteryReward(self, state, others)
    IN /\ rw' = [self |-> out.self, state |-> state, others |-> others,
                 calls |-> rw.calls + 1]
       /\ reward' = out.value
       /\ rret' = IF out.raised THEN "raised" ELSE "value"

(***************************************************************************)
(* Part 8: generalized advantage estimation                                *)
(***************************************************************************)

MaxRollout == 3        \* transitions of one rollout

\* gamma and lambda are counted in halves; advantages and returns are scaled
\* by GaeScale, which keeps every product of the recursion exact.
RECURSIVE Pow4(_)
Pow4(n) == IF n = 0 THEN 1 ELSE 4 * Pow4(n - 1)
GaeScale == Pow4(MaxRollout)

Rollouts ==
    UNION { [rewards : [1..n -> {-1, 1}], values : [1..n -> {0, 2}],
             dones : [1..n -> {0, 1}], gamma : {1, 2}, gae_lambda : {0, 1, 2}]
            : n \in 0..MaxRollout }

NoGae == [op |-> "__init__", advantages |-> <<>>, returns |-> <<>>,
          normalized |-> "no"]

GaeInit ==
    /\ rollout \in Rollouts
    /\ gae = NoGae

\* PPOAgent.compute_gae, lines 192-200 without the (1 - dones[t]) factor of
\* line 199: the advantages of steps t..n
RECURSIVE GaeFrom_carry(_, _, _, _, _, _)
GaeFrom_carry(t, rs, vs, ds, g, l) ==
    LET n == Len(rs)
        next_value == IF t = n THEN 0 ELSE vs[t + 1]
        later == IF t = n THEN <<>> ELSE GaeFrom_carry(t + 1, rs, vs, ds, g, l)
        last_advantage == IF t = n THEN 0 ELSE Head(later)
        delta == GaeScale * rs[t] + (GaeScale * g * next_value * (1 - ds[t])) \div 2
                 - GaeScale * vs[t]
    IN <<delta + (g * l * last_advantage) \div 4>> \o later

\* PPOAgent.compute_gae, lines 192-200: the advantages of steps t..n
RECURSIVE GaeFrom(_, _, _, _, _, _)
GaeFrom(t, rs, vs, ds, g, l) ==
    LET n == Len(rs)
        next_value == IF t = n THEN 0 ELSE vs[t + 1]
        later == IF t = n THEN <<>> ELSE GaeFrom(t + 1, rs, vs, ds, g, l)
        last_advantage == IF t = n THEN 0 ELSE Head(later)
        delta == GaeScale * rs[t] + (GaeScale * g * next_value * (1 - ds[t])) \div 2
                 - GaeScale * vs[t]
    IN <<delta + (g * l * (1 - ds[t]) * last_advantage) \div 4>> \o later

\* compute_gae returning the one-step errors: the recursion without its
\* carry
compute_gae_td ==
    LET adv == IF rollout.rewards = <<>> THEN <<>>
               ELSE GaeFrom(1, rollout.rewards, rollout.values, rollout.dones,
                            rollout.gamma, 0)
    IN /\ gae' = [op |-> "compute_gae", advantages |-> adv,
                  returns |-> [t \in 1..Len(adv) |->
                                  adv[t] + GaeScale * rollout.values[t]],
                  normalized |-> "no"]
       /\ UNCHANGED rollout

\* PPOAgent.compute_gae
compute_gae ==
    LET adv == IF rollout.rewards = <<>> THEN <<>>
               ELSE GaeFrom(1, rollout.rewards, rollout.values, rollout.dones,
                            rollout.gamma, rollout.gae_lambda)
    IN /\ gae' = [op |-> "compute_gae", advantages |-> adv,
                  returns |-> [t \in 1..Len(adv) |->
                                  adv[t] + GaeScale * rollout.values[t]],
                  normalized |-> "no"]
       /\ UNCHANGED rollout

\* PPOAgent.update, lines 81-98, on the rollout in the buffer: nothing for an
\* empty buffer; otherwise compute_gae and, line 98,
\* (advantages - mean) / (std + 1e-8).  torch's std of one element is NaN,
\* which makes the one advantage NaN; of several equal elements it is 0 and
\* the quotient 0.  advantages holds len * (adv - mean).
update_advantages ==
    LET n == Len(rollout.rewards)
        adv == IF n = 0 THEN <<>>
               ELSE GaeFrom(1, rollout.rewards, rollout.values, rollout.dones,
                            rollout.gamma, rollout.gae_lambda)
    IN /\ gae' = [op |-> "update",
                  advantages |-> [t \in 1..n |-> n * adv[t] - SumSeq(adv)],
                  returns |-> [t \in 1..n |-> adv[t] + GaeScale * rollout.values[t]],
                  normalized |-> IF n = 0 THEN "no"
                                 ELSE IF n = 1 THEN "nan"
                                 ELSE "standardized"]
       /\ UNCHANGED rollout

\* PPOTrainer.compute_gae(rewards, values, next_value, dones) with
\* next_value = 0.0, as PPOTrainer.update_agents calls it (line 270): the
\* value after the last step is 0 and both branches of lines 238-243 take
\* 1.0 - dones[step], which makes it the recursion of PPOAgent.compute_gae.
trainer_compute_gae ==
    LET adv == IF rollout.rewards = <<>> THEN <<>>
               ELSE GaeFrom(1, rollout.rewards, rollout.values, rollout.dones,
                            rollout.gamma, rollout.gae_lambda)
    IN /\ gae' = [op |-> "trainer_compute_gae", advantages |-> adv,
                  returns |-> [t \in 1..Len(adv) |->
                                  adv[t] + GaeScale * rollout.values[t]],
                  normalized |-> "no"]
       /\ UNCHANGED rollout

\* PPOContinuous.compute_advantages, lines 56-71: values has next_value
\* appended and next_non_terminal is 1.0 at every step
RECURSIVE AdvantagesFrom(_, _, _, _, _)
AdvantagesFrom(k, rs, vs, g, l) ==
    LET n == Len(rs)
        next_value == vs[k + 1]
        later == IF k = n THEN <<>> ELSE AdvantagesFrom(k + 1, rs, vs, g, l)
        last == IF k = n THEN 0 ELSE Head(later)
        delta == GaeScale * rs[k] + (GaeScale * g * next_value) \div 2
                 - GaeScale * vs[k]
    IN <<delta + (g * l * last) \div 4>> \o later

\* PPOContinuous.compute_advantages with next_value = 0.0, as update calls
\* it.  Lines 80-87 normalise the advantages it returns: "zeros" for one
\* transition, otherwise (adv - mean), divided by the standard deviation
\* when that is above 1e-8 ("standardized") and not otherwise ("centered").
\* advantages holds len * (adv - mean).
compute_advantages ==
    LET n == Len(rollout.rewards)
        adv == IF n = 0 THEN <<>>
               ELSE AdvantagesFrom(1, rollout.rewards, Append(rollout.values, 0),
                                   rollout.gamma, rollout.gae_lambda)
        centered == [t \in 1..n |-> n * adv[t] - SumSeq(adv)]
    IN /\ gae' = [op |-> "compute_advantages",
                  advantages |-> IF n > 1 THEN centered ELSE [t \in 1..n |-> 0],
                  returns |-> [t \in 1..n |-> adv[t] + GaeScale * rollout.values[t]],
                  normalized |-> IF n = 0 THEN "no"
                                 ELSE IF n = 1 THEN "zeros"
                                 ELSE IF \E t \in 1..n : centered[t] # 0
                                 THEN "standardized" ELSE "centered"]
       /\ UNCHANGED rollout

(***************************************************************************)
(* Part 9: the PPO agents of one environment                               *)
(***************************************************************************)

NumAgents == 2         \* nodes of the grid, one PPOAgent each
AgentIds == 1..NumAgents

\* The orders in which the agents can be visited.
Orders == { o \in [AgentIds -> AgentIds] : \A i, j \in AgentIds : o[i] = o[j] => i = j }

\* PPOAgent.__init__: its own Policy, Adam optimizer and RolloutBuffer.  The
\* parameters (with the optimizer's moments) are NaN, or finite and then
\* determined by the initial weights and by the minibatch shuffles and dropout
\* masks of the updates so far: shuffled lists the places of the generators'
\* streams those were drawn from.
PpoAgent ==
    [ptr |-> 0, policy |-> [finite |-> TRUE, shuffled |-> <<>>], training_step |-> 0]

MultiResult(op, who, raised) == [op |-> op, who |-> who, raised |-> raised]

\* PowerGridEnvPPO._initialize_ppo_agents.  Nothing seeds or replaces the
\* global generators of numpy and torch.
MultiInit ==
    /\ ppo_agents = [i \in AgentIds |-> PpoAgent]
    /\ generators \in [position : {0}, validate_args : BOOLEAN]
    /\ uret = MultiResult("__init__", <<>>, FALSE)

\* PPOAgent.store_transition: buffer.add, which ignores a full buffer.
store_transition(i) ==
    /\ ppo_agents' = [ppo_agents EXCEPT
                         ![i].ptr = IF @ >= BufferSize THEN @ ELSE @ + 1]
    /\ uret' = MultiResult("store_transition", <<i>>, FALSE)
    /\ UNCHANGED generators

\* PPOAgent.update of agent a with the generators at g: what the agent and
\* the generators become, and whether the call raised.  Every epoch shuffles
\* with np.random.permutation (line 111) and every pass runs Policy.forward
\* with its Dropout in training mode: both draw from the global generators
\* and advance them.  Everything else the update reads and writes belongs to
\* the agent (self.buffer, self.policy, self.optimizer, self.training_step).
UpdateOf(a, g) ==
    IF a.ptr = 0
    THEN [agent |-> a, generators |-> g, raised |-> FALSE]
    ELSE LET out == RunPasses(NEpochs * Minibatches(a.ptr),
                              IF a.policy.finite THEN "finite" ELSE "nan",
                              AdvantagesNaN(a.ptr), g.validate_args)
             pol == IF out.policy = "nan"
                    THEN [finite |-> FALSE, shuffled |-> <<>>]
                    ELSE [finite |-> TRUE,
                          shuffled |-> Append(a.policy.shuffled, g.position)]
         IN [agent |-> IF out.raised
                       THEN [a EXCEPT !.policy = pol]
                       ELSE [ptr |-> 0, policy |-> pol,
                             training_step |-> a.training_step + 1],
             generators |-> [g EXCEPT !.position = @ + 1],
             raised |-> out.raised]

\* PowerGridEnvPPO.update_agents, visiting the agents in the given order from
\* the k-th on: an agent whose buffer is ready is updated; an exception of
\* one update ends the loop.
RECURSIVE UpdateAll(_, _, _, _)
UpdateAll(order, k, agents, g) ==
    IF k > NumAgents THEN [agents |-> agents, generators |-> g, raised |-> FALSE]
    ELSE LET i == order[k]
             out == UpdateOf(agents[i], g)
         IN IF out.raised
            THEN [agents |-> [agents EXCEPT ![i] = out.agent],
                  generators |-> out.generators, raised |-> TRUE]
            ELSE UpdateAll(order, k + 1, [agents EXCEPT ![i] = out.agent],
                           out.generators)

agent_update(i) ==
    LET out == UpdateOf(ppo_agents[i], generators)
    IN /\ ppo_agents' = [ppo_agents EXCEPT ![i] = out.agent]
       /\ generators' = out.generators
       /\ uret' = MultiResult("update", <<i>>, out.raised)

update_agents(order) ==
    LET out == UpdateAll(order, 1, ppo_agents, generators)
    IN /\ ppo_agents' = out.agents
       /\ generators' = out.generators
       /\ uret' = MultiResult("update_agents", order, out.raised)

(***************************************************************************)
(* Part 10: Node dynamics                                                  *)
(***************************************************************************)

MaxSteps == 3          \* Node.time_step calls explored since construction

\* Node.__init__: friction and dt as given, offset and doffset 0.  The net
\* transmission is what Node.get_transmission returns from the branches of
\* the node while it is stepped.
DynInit ==
    /\ nd \in [friction : {0, 1}, dt : {1, 2}, transmission : {-1, 0, 1}]
    /\ node_offset = 0
    /\ node_doffset = 0
    /\ kret = [op |-> "__init__", d2offset |-> 0, steps |-> 0]

\* Node.time_step, d2offset being action * startup_rate (line 73) or what
\* agent.act(state) returned (line 76).  Lines 78-79 are the whole
\* integration: self.friction and get_transmission() are not read, and the
\* offset is not reduced modulo 2 pi.
node_time_step(d2offset) ==
    /\ node_doffset' = node_doffset + d2offset * nd.dt
    /\ node_offset' = node_offset + node_doffset' * nd.dt
    /\ kret' = [op |-> "time_step", d2offset |-> d2offset, steps |-> kret.steps + 1]
    /\ UNCHANGED nd

\* PowerGridEnvPPO.reset, lines 126-128, on the node
node_reset ==
    /\ node_offset' = 0
    /\ node_doffset' = 0
    /\ kret' = [op |-> "reset", d2offset |-> 0, steps |-> 0]
    /\ UNCHANGED nd

(***************************************************************************)
(* Part 11: the training loop                                              *)
(***************************************************************************)

MaxEpisodes == 3       \* n_episodes of the trainer

\* GridPPOTrainer.train before its first episode
TrainInit ==
    train = [pc |-> "collect", episode |-> 0, n_steps |-> 0, steps |-> 0]

\* buffer.add of PPOAgent.store_transition on agent a: a full buffer is left
\* as it is
StoreIn(a) == [a EXCEPT !.ptr = IF @ >= BufferSize THEN @ ELSE @ + 1]

\* The loop of collect_rollout without the test of lines 457-459.
RECURSIVE CollectSteps_nobreak(_, _, _)
CollectSteps_nobreak(k, n_steps, agents) ==
    IF k > n_steps THEN [agents |-> agents, steps |-> k - 1]
    ELSE CollectSteps_nobreak(k + 1, n_steps,
                              [i \in AgentIds |-> StoreIn(agents[i])])

\* PowerGridEnvPPO.collect_rollout, lines 427-459, from its k-th pass on:
\* every agent acts, the environment steps once, every agent stores its
\* transition, and the loop ends when a buffer is full.
RECURSIVE CollectSteps(_, _, _)
CollectSteps(k, n_steps, agents) ==
    IF k > n_steps THEN [agents |-> agents, steps |-> k - 1]
    ELSE LET stored == [i \in AgentIds |-> StoreIn(agents[i])]
         IN IF \E i \in AgentIds : stored[i].ptr >= BufferSize
            THEN [agents |-> stored, steps |-> k]
            ELSE CollectSteps(k + 1, n_steps, stored)

\* train, lines 232-233: self.env.collect_rollout(self.rollout_steps)
collect_rollout(n_steps) ==
    LET out == CollectSteps(1, n_steps, ppo_agents)
    IN /\ ppo_agents' = out.agents
       /\ train' = [pc |-> "update", episode |-> train.episode + 1,
                    n_steps |-> n_steps, steps |-> out.steps]
       /\ uret' = MultiResult("collect_rollout", <<>>, FALSE)
       /\ UNCHANGED generators

\* train, line 237: self.env.update_agents(), the agents visited in the order
\* of the dict; its exception ends train.
train_update ==
    LET out == UpdateAll([i \in AgentIds |-> i], 1, ppo_agents, generators)
    IN /\ ppo_agents' = out.agents
       /\ generators' = out.generators
       /\ uret' = MultiResult("update_agents", [i \in AgentIds |-> i], out.raised)
       /\ train' = [train EXCEPT !.pc = IF out.raised THEN "raised" ELSE "collect"]

(***************************************************************************)
(* Part 13: the stochastic simulations of the server                       *)
(***************************************************************************)

MaxRuns == 2           \* "runs" of the simulation request
MaxRequests == 2       \* status and results requests answered

Response(route, code, body) == [route |-> route, code |-> code, body |-> body]

\* start_stochastic_simulation, lines 806-862, has stored the metadata of
\* sim_id, started the thread and answered 201.  end_time is NoVal while
\* the dict has no "end_time" key, error is FALSE while it has no "error".
SimInit ==
    /\ \E runs \in 1..MaxRuns :
          stochastic_simulations =
              [status |-> "running", progress |-> 0, current_run |-> 0,
               runs |-> runs, end_time |-> NoVal, error |-> FALSE]
    /\ simulation_results = FALSE
    /\ thread = [pc |-> "for", run |-> 0]
    /\ handler = [pc |-> "idle", requests |-> 0]
    /\ response = Response("start", 201, "Stochastic simulation started")

\* ---- run_stochastic_simulation, one statement at a time ----------------

\* Line 825: for run in range(runs)
for_run ==
    /\ thread.pc = "for"
    /\ thread' = [thread EXCEPT !.pc = IF thread.run < stochastic_simulations.runs
                                      THEN "current_run" ELSE "analyze"]
    /\ UNCHANGED <<stochastic_simulations, simulation_results>>

\* Line 827
set_current_run ==
    /\ thread.pc = "current_run"
    /\ stochastic_simulations' =
          [stochastic_simulations EXCEPT !.current_run = thread.run + 1]
    /\ thread' = [thread EXCEPT !.pc = "progress"]
    /\ UNCHANGED simulation_results

\* Line 828
set_progress ==
    /\ thread.pc = "progress"
    /\ stochastic_simulations' =
          [stochastic_simulations EXCEPT
              !.progress = (thread.run * 100) \div stochastic_simulations.runs]
    /\ thread' = [thread EXCEPT !.pc = "run_simulation"]
    /\ UNCHANGED simulation_results

\* Lines 834-842: run_simulation returns a result, or raises.
call_run_simulation ==
    /\ thread.pc = "run_simulation"
    /\ \E raised \in BOOLEAN :
          thread' = IF raised THEN [thread EXCEPT !.pc = "except"]
                    ELSE [pc |-> "for", run |-> thread.run + 1]
    /\ UNCHANGED <<stochastic_simulations, simulation_results>>

\* Line 845: SimulationAnalyzer.analyze_results returns, or raises.
analyze_results ==
    /\ thread.pc = "analyze"
    /\ \E raised \in BOOLEAN :
          thread' = [thread EXCEPT !.pc = IF raised THEN "except" ELSE "status"]
    /\ UNCHANGED <<stochastic_simulations, simulation_results>>

\* Line 848
set_status_completed ==
    /\ thread.pc = "status"
    /\ stochastic_simulations' = [stochastic_simulations EXCEPT !.status = "completed"]
    /\ thread' = [thread EXCEPT !.pc = "progress_100"]
    /\ UNCHANGED simulation_results

\* Line 849
set_progress_100 ==
    /\ thread.pc = "progress_100"
    /\ stochastic_simulations' = [stochastic_simulations EXCEPT !.progress = 100]
    /\ thread' = [thread EXCEPT !.pc = "end_time"]
    /\ UNCHANGED simulation_results

\* Line 850
set_end_time ==
    /\ thread.pc = "end_time"
    /\ stochastic_simulations' = [stochastic_simulations EXCEPT !.end_time = 1]
    /\ thread' = [thread EXCEPT !.pc = "store"]
    /\ UNCHANGED simulation_results

\* Lines 851-854
store_results ==
    /\ thread.pc = "store"
    /\ simulation_results' = TRUE
    /\ thread' = [thread EXCEPT !.pc = "done"]
    /\ UNCHANGED stochastic_simulations

\* Line 857
set_status_error ==
    /\ thread.pc = "except"
    /\ stochastic_simulations' = [stochastic_simulations EXCEPT !.status = "error"]
    /\ thread' = [thread EXCEPT !.pc = "error"]
    /\ UNCHANGED simulation_results

\* Line 858
set_error ==
    /\ thread.pc = "error"
    /\ stochastic_simulations' = [stochastic_simulations EXCEPT !.error = TRUE]
    /\ thread' = [thread EXCEPT !.pc = "done"]
    /\ UNCHANGED simulation_results

run_stochastic_simulation ==
    \/ for_run
    \/ set_current_run
    \/ set_progress
    \/ call_run_simulation
    \/ analyze_results
    \/ set_status_completed
    \/ set_progress_100
    \/ set_end_time
    \/ store_results
    \/ set_status_error
    \/ set_error

\* ---- get_simulation_status ---------------------------------------------

\* Line 893 copies the dict in one step; the rest works on the copy.  A
\* copy that says "completed" without an "end_time" key raises KeyError at
\* line 905, which line 910 turns into a 500.
get_simulation_status ==
    LET sim_info == stochastic_simulations
    IN /\ response' =
             IF sim_info.status = "completed" /\ sim_info.end_time = NoVal
             THEN Response("status", 500, "Failed to get simulation status")
             ELSE Response("status", 200, sim_info.status)
       /\ handler' = [handler EXCEPT !.requests = @ + 1]

\* ---- get_simulation_results --------------------------------------------

\* Lines 928-931: sim_info is the dict itself, read for its status.
results_read_status ==
    IF stochastic_simulations.status # "completed"
    THEN /\ response' = Response("results", 400, "Simulation not completed")
         /\ handler' = [handler EXCEPT !.requests = @ + 1]
    ELSE /\ handler' = [handler EXCEPT !.pc = "results_check"]
         /\ UNCHANGED response

\* Lines 933-934
results_check ==
    IF ~simulation_results
    THEN /\ response' = Response("results", 404, "Results not found")
         /\ handler' = [pc |-> "idle", requests |-> handler.requests + 1]
    ELSE /\ handler' = [handler EXCEPT !.pc = "results_build"]
         /\ UNCHANGED response

\* Lines 936-972: the response reads sim_info["end_time"].
results_build ==
    /\ response' = IF stochastic_simulations.end_time = NoVal
                   THEN Response("results", 500, "Failed to get simulation results")
                   ELSE Response("results", 200, "analysis")
    /\ handler' = [pc |-> "idle", requests |-> handler.requests + 1]

(***************************************************************************)
(* Part 14: the histories of BaseAgent                                     *)
(***************************************************************************)

MaxActs == 103         \* calls of act between two resets

\* training_steps of the agents explored: history arrays of 0, 1, 50, 100,
\* 101 and 110 slots.
TrainingSteps == {2, 3, 52, 102, 103, 112}

\* The slots of an array of np.zeros(training_steps - 2).
HistorySlots(training_steps) == 0..(training_steps - 3)

\* Where a[i] = v writes in an array with slots S: slot i, the slot counted
\* from the end for a negative i, or nowhere (IndexError).
SlotOf(i, S) ==
    LET n == Cardinality(S)
    IN IF i \in S THEN {i}
       ELSE IF i < 0 /\ i + n \in S THEN {i + n}
       ELSE {}

BaseResult(op, outcome, at_step, trained, written, rewarded) ==
    [op |-> op, outcome |-> outcome, step |-> at_step, trained |-> trained,
     written |-> written, rewarded |-> rewarded]

\* BaseAgent.reset, lines 19-24: fresh arrays of zeros and step = -1.
base_reset(training_steps) ==
    [training_steps |-> training_steps, step |-> -1,
     written |-> {}, rewarded |-> {}]

\* BaseAgent.__init__
BaseInit ==
    /\ \E training_steps \in TrainingSteps : base_agent = base_reset(training_steps)
    /\ hret = BaseResult("__init__", "ok", -1, {}, {}, {})

\* BaseAgent.act, lines 26-44.  written holds the slots of logprob_history,
\* action_history and state_history assigned since the last reset, rewarded
\* those of reward_history.
base_act ==
    LET S == HistorySlots(base_agent.training_steps)
        new_step == base_agent.step + 1
        stores == new_step < base_agent.training_steps - 2
        slot == SlotOf(new_step, S)
        rslot == SlotOf(new_step - 1, S)
        raised == stores /\ (slot = {} \/ (new_step > 0 /\ rslot = {}))
    IN /\ base_agent' =
             [base_agent EXCEPT
                 !.step = new_step,
                 !.written = IF stores THEN @ \cup slot ELSE @,
                 !.rewarded = IF stores /\ slot # {} /\ new_step > 0
                              THEN @ \cup rslot ELSE @]
       /\ hret' = BaseResult("act", IF raised THEN "raised" ELSE "ok", new_step,
                             {}, {}, {})

\* BaseAgent.update, lines 54-62: network.update is given the whole
\* history arrays.
base_update ==
    IF base_agent.step < 0 \/ base_agent.step < 100
    THEN /\ hret' = BaseResult("update", "skipped", base_agent.step, {}, {}, {})
         /\ UNCHANGED base_agent
    ELSE /\ hret' = BaseResult("update", "trained", base_agent.step,
                               HistorySlots(base_agent.training_steps),
                               base_agent.written, base_agent.rewarded)
         /\ base_agent' = base_reset(base_agent.training_steps)

(***************************************************************************)
(* Specifications                                                          *)
(***************************************************************************)

Init == GridInit /\ BufInit /\ BatInit /\ AgentInit /\ TickInit /\ BranchInit
        /\ RewardInit /\ GaeInit /\ NetInit /\ BaseInit /\ SimInit /\ TrainInit /\ DynInit /\ MultiInit

AddNode ==
    /\ \E node_json \in NodeJsons, draw \in RandDraws :
          /\ next_uid <= MaxNodes \/ node_json.id = None
          /\ node_json.inertia # NoVal => draw = 0
          /\ add_node(node_json, draw)
    /\ UNCHANGED exceptGrid
AddConnection ==
    /\ \E connection_json \in ConnJsons :
          /\ \/ Len(network_dict.connections) < MaxConnections
             \/ UnknownEnd(connection_json)
          /\ add_connection(connection_json)
    /\ UNCHANGED exceptGrid
RemoveNode ==
    /\ \E node_id \in NodeIds : remove_node(node_id)
    /\ UNCHANGED exceptGrid
RemoveConnection ==
    /\ \E connection_id \in ConnIds : remove_connection(connection_id)
    /\ UNCHANGED exceptGrid
GetNodeState ==
    /\ \E node_id \in NodeIds : get_node_state(node_id)
    /\ UNCHANGED exceptGrid

GridNext ==
    \/ AddNode
    \/ AddConnection
    \/ RemoveNode
    \/ RemoveConnection
    \/ GetNodeState

Add ==
    /\ \E t \in Transitions : add(t)
    /\ UNCHANGED exceptBuf
Get ==
    /\ get
    /\ UNCHANGED exceptBuf
Clear ==
    /\ clear
    /\ UNCHANGED exceptBuf
Update ==
    /\ training_step < MaxUpdates
    /\ \E validate_args \in BOOLEAN : update(validate_args)
    /\ UNCHANGED exceptBuf

NetworkUpdate ==
    /\ network.policy_steps < MaxUpdates
    /\ network.value_steps < MaxUpdates
    /\ \E n \in 0..BufferSize, nan_rewards \in BOOLEAN : ppo_update(n, nan_rewards)
    /\ UNCHANGED exceptNet

BufNext ==
    \/ Add
    \/ Get
    \/ Clear
    \/ Update

Act ==
    /\ \E action \in ActionValues : act(action)
    /\ UNCHANGED exceptBat
Step ==
    /\ \E action \in ActionValues, dt \in StepDts : step(action, dt)
    /\ UNCHANGED exceptBat

BatNext ==
    \/ Act
    \/ Step

\* The initial state each part keeps under the specifications of the others.
GridIdle ==
    /\ GridInit /\ network_dict.nodes = <<>> /\ network_dict.connections = <<>>
BufIdle ==
    /\ BufInit
BatIdle ==
    /\ BatInit /\ soc = SocUnits \div 2 /\ battery.capacity = 50
AgentIdle ==
    /\ AgentInit /\ agent = [type |-> "ProducerAgent", size |-> 60]
TickIdle ==
    /\ TickInit /\ grid_dt = 720
BranchIdle ==
    /\ BranchInit /\ branch.transmission_factor = 1 /\ branch.capacity = 50 * SinUnits
    /\ offset = [i \in {0, 1} |-> 0]

RewardIdle ==
    /\ rw = [self |-> RewardAgent("ProducerAgent", 40, 0, 50, <<>>),
             state |-> [frequency |-> 600, avg_cost |-> 50, temperature |-> 0],
             others |-> <<>>, calls |-> 0]
    /\ reward = 0
    /\ rret = "__init__"

GaeIdle ==
    /\ rollout = [rewards |-> <<>>, values |-> <<>>, dones |-> <<>>,
                  gamma |-> 2, gae_lambda |-> 2]
    /\ gae = NoGae

NetIdle ==
    /\ NetInit
MultiIdle ==
    /\ MultiInit /\ generators.validate_args
TrainIdle ==
    /\ TrainInit
DynIdle ==
    /\ DynInit /\ nd = [friction |-> 0, dt |-> 1, transmission |-> 0]
SimIdle ==
    /\ SimInit /\ stochastic_simulations.runs = 1
BaseIdle ==
    /\ BaseInit /\ base_agent.training_steps = 2

\* One grid with its structural operations.
GridStart ==
    /\ GridInit
    /\ BufIdle
    /\ BatIdle
    /\ AgentIdle
    /\ TickIdle
    /\ BranchIdle
    /\ RewardIdle
    /\ GaeIdle
    /\ NetIdle
    /\ MultiIdle
    /\ DynIdle
    /\ TrainIdle
    /\ SimIdle
    /\ BaseIdle
SpecGrid == GridStart /\ [][GridNext]_vars

\* One PPO agent with its rollout buffer.
BufStart ==
    /\ GridIdle
    /\ BufInit
    /\ BatIdle
    /\ AgentIdle
    /\ TickIdle
    /\ BranchIdle
    /\ RewardIdle
    /\ GaeIdle
    /\ NetIdle
    /\ MultiIdle
    /\ DynIdle
    /\ TrainIdle
    /\ SimIdle
    /\ BaseIdle
SpecBuffer == BufStart /\ [][BufNext]_vars

\* The two PPO implementations, each updating on the rollouts it is given.
NetNext ==
    \/ Add
    \/ Update
    \/ NetworkUpdate
NetStart ==
    /\ GridIdle
    /\ BufInit
    /\ BatIdle
    /\ AgentIdle
    /\ TickIdle
    /\ BranchIdle
    /\ RewardIdle
    /\ GaeIdle
    /\ NetIdle
    /\ MultiIdle
    /\ DynIdle
    /\ TrainIdle
    /\ SimIdle
    /\ BaseIdle
SpecNet == NetStart /\ [][NetNext]_vars

\* One battery driven by act and by the training environment.
BatStart ==
    /\ GridIdle
    /\ BufIdle
    /\ BatInit
    /\ AgentIdle
    /\ TickIdle
    /\ BranchIdle
    /\ RewardIdle
    /\ GaeIdle
    /\ NetIdle
    /\ MultiIdle
    /\ DynIdle
    /\ TrainIdle
    /\ SimIdle
    /\ BaseIdle
SpecBattery == BatStart /\ [][BatNext]_vars

ActProducer ==
    /\ \E action \in ActionValues : ProducerAct(action)
    /\ UNCHANGED exceptAgent
ActConsumer ==
    /\ \E action \in ActionValues : ConsumerAct(action)
    /\ UNCHANGED exceptAgent
ActBusiness ==
    /\ \E action \in ActionValues : BusinessAct(action)
    /\ UNCHANGED exceptAgent
StepAgent ==
    /\ \E action \in ActionValues : AgentStep(action)
    /\ UNCHANGED exceptAgent

\* One agent of each class and one battery, driven by act and by the training
\* environment.
AgentNext ==
    \/ ActProducer
    \/ ActConsumer
    \/ ActBusiness
    \/ StepAgent
    \/ Act
    \/ Step

AgentStart ==
    /\ GridIdle
    /\ BufIdle
    /\ BatIdle
    /\ AgentInit
    /\ TickIdle
    /\ BranchIdle
    /\ RewardIdle
    /\ GaeIdle
    /\ NetIdle
    /\ MultiIdle
    /\ DynIdle
    /\ TrainIdle
    /\ SimIdle
    /\ BaseIdle
SpecAgents == AgentStart /\ [][AgentNext]_vars

CalculateElectricityPrice ==
    /\ calculate_electricity_price
    /\ UNCHANGED exceptTick

TimeStep ==
    /\ \E time_of_day \in {0, 720}, order \in OrdersOf(DOMAIN nodes) :
           time_step(20, time_of_day, order)
    /\ UNCHANGED exceptTick
SimulateDay ==
    /\ \E order \in OrdersOf(DOMAIN nodes) : simulate_day(order)
    /\ UNCHANGED exceptTick

\* One grid, priced and stepped.
TickNext ==
    \/ CalculateElectricityPrice
    \/ TimeStep
    \/ SimulateDay

TickStart ==
    /\ GridInit
    /\ BufIdle
    /\ BatIdle
    /\ AgentIdle
    /\ TickInit
    /\ BranchIdle
    /\ RewardIdle
    /\ GaeIdle
    /\ NetIdle
    /\ MultiIdle
    /\ DynIdle
    /\ TrainIdle
    /\ SimIdle
    /\ BaseIdle
SpecTick == TickStart /\ [][TickNext]_vars

GetTransmission ==
    /\ get_transmission
    /\ UNCHANGED exceptBranch
NodeMoves ==
    /\ \E i \in {0, 1}, d \in {-1, 1} : MoveOffset(i, d)
    /\ UNCHANGED exceptBranch

\* One branch between two nodes whose phases move.
BranchNext ==
    \/ GetTransmission
    \/ NodeMoves

BranchStart ==
    /\ GridIdle
    /\ BufIdle
    /\ BatIdle
    /\ AgentIdle
    /\ TickIdle
    /\ BranchInit
    /\ RewardIdle
    /\ GaeIdle
    /\ NetIdle
    /\ MultiIdle
    /\ DynIdle
    /\ TrainIdle
    /\ SimIdle
    /\ BaseIdle
SpecBranch == BranchStart /\ [][BranchNext]_vars

ComputeReward ==
    /\ rw.calls < MaxRewardCalls
    /\ compute_reward(rw.self, rw.state, rw.others)
    /\ UNCHANGED exceptReward

\* One agent rewarded for one tick.
RewardNext ==
    \/ ComputeReward

RewardStart ==
    /\ GridIdle
    /\ BufIdle
    /\ BatIdle
    /\ AgentIdle
    /\ TickIdle
    /\ BranchIdle
    /\ RewardInit
    /\ GaeIdle
    /\ NetIdle
    /\ MultiIdle
    /\ DynIdle
    /\ TrainIdle
    /\ SimIdle
    /\ BaseIdle
SpecReward == RewardStart /\ [][RewardNext]_vars

ComputeGae ==
    /\ rollout.rewards # <<>>
    /\ compute_gae
    /\ UNCHANGED exceptGae
ComputeAdvantages ==
    /\ compute_advantages
    /\ UNCHANGED exceptGae
TrainerComputeGae ==
    /\ trainer_compute_gae
    /\ UNCHANGED exceptGae
UpdateAdvantages ==
    /\ update_advantages
    /\ UNCHANGED exceptGae

\* One rollout given to the advantage computations.
GaeNext ==
    \/ ComputeGae
    \/ ComputeAdvantages
    \/ TrainerComputeGae
    \/ UpdateAdvantages

GaeStart ==
    /\ GridIdle
    /\ BufIdle
    /\ BatIdle
    /\ AgentIdle
    /\ TickIdle
    /\ BranchIdle
    /\ RewardIdle
    /\ GaeInit
    /\ NetIdle
    /\ MultiIdle
    /\ DynIdle
    /\ TrainIdle
    /\ SimIdle
    /\ BaseIdle
SpecGae == GaeStart /\ [][GaeNext]_vars

\* The PPO agents of one environment: rollouts are stored, then the agents
\* are updated one by one or by update_agents.
MayUpdate ==
    /\ \A i \in AgentIds : ppo_agents[i].training_step < MaxUpdates
    /\ generators.position < NumAgents * MaxUpdates

StoreTransition ==
    /\ \E i \in AgentIds : store_transition(i)
    /\ UNCHANGED exceptMulti
AgentUpdate ==
    /\ MayUpdate
    /\ \E i \in AgentIds : agent_update(i)
    /\ UNCHANGED exceptMulti
UpdateAgents ==
    /\ MayUpdate
    /\ \E order \in Orders : update_agents(order)
    /\ UNCHANGED exceptMulti

MultiNext ==
    \/ StoreTransition
    \/ AgentUpdate
    \/ UpdateAgents

MultiStart ==
    /\ GridIdle
    /\ BufIdle
    /\ BatIdle
    /\ AgentIdle
    /\ TickIdle
    /\ BranchIdle
    /\ RewardIdle
    /\ GaeIdle
    /\ NetIdle
    /\ MultiInit
    /\ DynIdle
    /\ TrainIdle
    /\ SimIdle
    /\ BaseIdle
SpecMulti == MultiStart /\ [][MultiNext]_vars

NodeTimeStep ==
    /\ kret.steps < MaxSteps
    /\ \E d2offset \in {-1, 0, 1} : node_time_step(d2offset)
    /\ UNCHANGED exceptDyn
NodeReset ==
    /\ node_reset
    /\ UNCHANGED exceptDyn

\* One node stepped by its agent and reset by the environment.
DynNext ==
    \/ NodeTimeStep
    \/ NodeReset

DynStart ==
    /\ GridIdle
    /\ BufIdle
    /\ BatIdle
    /\ AgentIdle
    /\ TickIdle
    /\ BranchIdle
    /\ RewardIdle
    /\ GaeIdle
    /\ NetIdle
    /\ MultiIdle
    /\ DynInit
    /\ TrainIdle
    /\ SimIdle
    /\ BaseIdle
SpecDyn == DynStart /\ [][DynNext]_vars

CollectRollout ==
    /\ train.pc = "collect"
    /\ train.episode < MaxEpisodes
    /\ \E n_steps \in 0..(BufferSize + 1) : collect_rollout(n_steps)
    /\ UNCHANGED exceptTrain
TrainUpdate ==
    /\ train.pc = "update"
    /\ train_update
    /\ UNCHANGED exceptTrain

\* The episodes of one training run.
TrainNext ==
    \/ CollectRollout
    \/ TrainUpdate

TrainStart ==
    /\ GridIdle
    /\ BufIdle
    /\ BatIdle
    /\ AgentIdle
    /\ TickIdle
    /\ BranchIdle
    /\ RewardIdle
    /\ GaeIdle
    /\ NetIdle
    /\ MultiInit
    /\ DynIdle
    /\ TrainInit
    /\ SimIdle
    /\ BaseIdle
SpecTrain == TrainStart /\ [][TrainNext]_vars

\* A step of the background thread.
RunStochasticSimulation ==
    /\ run_stochastic_simulation
    /\ UNCHANGED <<handler, response>>
    /\ UNCHANGED exceptSim
GetSimulationStatus ==
    /\ handler.pc = "idle"
    /\ handler.requests < MaxRequests
    /\ get_simulation_status
    /\ UNCHANGED <<stochastic_simulations, simulation_results, thread>>
    /\ UNCHANGED exceptSim
\* A results request arrives.
GetSimulationResults ==
    /\ handler.pc = "idle"
    /\ handler.requests < MaxRequests
    /\ results_read_status
    /\ UNCHANGED <<stochastic_simulations, simulation_results, thread>>
    /\ UNCHANGED exceptSim
\* The results request goes on.
ResultsCheck ==
    /\ handler.pc = "results_check"
    /\ results_check
    /\ UNCHANGED <<stochastic_simulations, simulation_results, thread>>
    /\ UNCHANGED exceptSim
ResultsBuild ==
    /\ handler.pc = "results_build"
    /\ results_build
    /\ UNCHANGED <<stochastic_simulations, simulation_results, thread>>
    /\ UNCHANGED exceptSim

\* One stochastic simulation, its thread and the requests about it.
SimNext ==
    \/ RunStochasticSimulation
    \/ GetSimulationStatus
    \/ GetSimulationResults
    \/ ResultsCheck
    \/ ResultsBuild

SimStart ==
    /\ GridIdle
    /\ BufIdle
    /\ BatIdle
    /\ AgentIdle
    /\ TickIdle
    /\ BranchIdle
    /\ RewardIdle
    /\ GaeIdle
    /\ NetIdle
    /\ MultiIdle
    /\ DynIdle
    /\ TrainIdle
    /\ SimInit
    /\ BaseIdle
SpecSim == SimStart /\ [][SimNext]_vars

BaseAct ==
    /\ base_agent.step + 1 < MaxActs
    /\ base_act
    /\ UNCHANGED exceptBase
BaseUpdate ==
    /\ base_update
    /\ UNCHANGED exceptBase

\* One BaseAgent acting and updating.
BaseNext ==
    \/ BaseAct
    \/ BaseUpdate

BaseStart ==
    /\ GridIdle
    /\ BufIdle
    /\ BatIdle
    /\ AgentIdle
    /\ TickIdle
    /\ BranchIdle
    /\ RewardIdle
    /\ GaeIdle
    /\ NetIdle
    /\ MultiIdle
    /\ DynIdle
    /\ TrainIdle
    /\ SimIdle
    /\ BaseInit
SpecBase == BaseStart /\ [][BaseNext]_vars

Next == GridNext \/ BufNext \/ BatNext \/ AgentNext \/ TickNext \/ BranchNext
           \/ RewardNext \/ GaeNext \/ MultiNext \/ NetNext \/ DynNext \/ TrainNext
           \/ SimNext \/ BaseNext
Spec == Init /\ [][Next]_vars

(***************************************************************************)
(* Properties                                                              *)
(***************************************************************************)

\* ---- PowerGrid ----

\* C1: after any sequence of construction, add_node and remove_node calls,
\* total_inertia is the sum of the inertia of the nodes in the grid.
C1_TotalInertiaIsSum == total_inertia = SumInertia(nodes, DOMAIN nodes)

\* C2: add_connection whose "from" or "to" is missing or is not a node of the
\* grid returns False and leaves the adjacency map, every node's connection
\* list and the stored network description as they were.
C2_AddConnectionUnknownEnd ==
    [][(ret'.op = "add_connection" /\ UnknownEnd(ret'.conn))
         => /\ ret'.val = "False"
            /\ UNCHANGED <<branches, nodes, network_dict>>]_vars

\* A rejected connection with one end in the grid and the other not, on a
\* grid that already has a branch to preserve.
C2_Witness ==
    /\ ret.op = "add_connection" /\ ret.val = "False"
    /\ ret.conn.from \in DOMAIN nodes
    /\ ret.conn.to # None /\ ret.conn.to \notin DOMAIN nodes
    /\ network_dict.connections # <<>>
    /\ branches[ret.conn.from] # <<>>

StoredConnIds ==
    {network_dict.connections[i].id : i \in 1..Len(network_dict.connections)}

\* C3: remove_node and remove_connection with an id that is not in the grid
\* return a failure value without raising and leave nodes, branches,
\* total_inertia and the stored network description as they were.
C3_RemoveUnknown ==
    [][(\/ ret'.op = "remove_node" /\ ret'.id \notin DOMAIN nodes
        \/ ret'.op = "remove_connection" /\ ret'.id \notin StoredConnIds)
         => /\ ret'.val = "False"
            /\ UNCHANGED <<nodes, branches, total_inertia, network_dict>>]_vars

\* No Branch of the adjacency map br or of a connection list of nds ends at
\* node_id, and no connection of the stored description net names it.
Unreferenced(node_id, br, nds, net) ==
    /\ \A k \in DOMAIN br : \A i \in 1..Len(br[k]) :
          br[k][i].node0.id # node_id /\ br[k][i].node1.id # node_id
    /\ \A k \in DOMAIN nds : \A i \in 1..Len(nds[k].connections) :
          /\ nds[k].connections[i].node0.id # node_id
          /\ nds[k].connections[i].node1.id # node_id
    /\ \A i \in 1..Len(net.connections) :
          net.connections[i].from # node_id /\ net.connections[i].to # node_id

\* C4: remove_node of a node of the grid, whatever its incident connections,
\* returns True, and afterwards nothing refers to the removed node.
C4_RemoveNodeWithConnections ==
    [][(ret'.op = "remove_node" /\ ret'.id \in DOMAIN nodes)
         => /\ ret'.val = "True"
            /\ ret'.id \notin DOMAIN nodes'
            /\ Unreferenced(ret'.id, branches', nodes', network_dict')]_vars

DeclaredIds == {network_dict.nodes[i].id : i \in 1..Len(network_dict.nodes)}

\* C5: a network description with a connection whose "from" or "to" is not a
\* declared node makes construction report a failure to the caller.
C5_ConstructionRejectsUnknownEnd ==
    (/\ ret.op = "__init__"
     /\ \E i \in 1..Len(network_dict.connections) :
           \/ network_dict.connections[i].from \notin DeclaredIds
           \/ network_dict.connections[i].to \notin DeclaredIds)
      => ret.val = "failure"

\* C6: once add_node(json) has returned True, get_node_state(json.id) gives
\* back that json.
C6_AddNodeRoundTrip ==
    (ret.op = "add_node" /\ ret.val = "True")
      => FirstWithId(network_dict.nodes, ret.node.id) = ret.node

\* ---- RolloutBuffer / PPOAgent ----

\* C7: add on a buffer that already holds buffer_size transitions returns
\* False and changes neither the pointer nor any stored entry.
C7_AddWhenFull ==
    [][(bret'.op = "add" /\ ptr >= BufferSize)
         => /\ bret'.val = "False"
            /\ UNCHANGED <<observations, actions, rewards, values, log_probs,
                           dones, ptr>>]_vars

C7_Witness ==
    /\ bret.op = "add" /\ bret.val = "False"
    /\ ptr = BufferSize
    /\ \E i \in Slots : rewards[i] # 0

\* The rows of what get returned, each as a transition.
Rows(data) ==
    [i \in 1..Len(data.rewards) |->
        [obs |-> data.observations[i], action |-> data.actions[i][1],
         reward |-> data.rewards[i], value |-> data.values[i],
         log_prob |-> data.log_probs[i], done |-> data.dones[i]]]

\* A transition with done as a number, as given to add.
AsGiven(t) == [t EXCEPT !.done = IF t.done THEN One ELSE 0]

\* A transition with every number narrowed to float32.
AsStored(t) ==
    [obs |-> [k \in DOMAIN t.obs |-> Float32(t.obs[k])],
     action |-> Float32(t.action), reward |-> Float32(t.reward),
     value |-> Float32(t.value), log_prob |-> Float32(t.log_prob),
     done |-> IF t.done THEN One ELSE 0]

\* C8 as stated: 0 <= ptr <= buffer_size, ptr is the number of successful
\* adds since the last clear, and get returns exactly those transitions in
\* insertion order.
C8_GetReturnsAdded ==
    /\ ptr \in 0..BufferSize
    /\ ptr = Len(added)
    /\ bret.op = "get" =>
          Rows(bret.data) = [i \in 1..Len(added) |-> AsGiven(added[i])]

\* C8 as amended: ... and get returns those transitions in insertion order,
\* each number narrowed to float32 as add stored it.
C8_GetReturnsStored ==
    /\ ptr \in 0..BufferSize
    /\ ptr = Len(added)
    /\ bret.op = "get" =>
          Rows(bret.data) = [i \in 1..Len(added) |-> AsStored(added[i])]

\* get on a full buffer holding two different transitions, one of them with
\* a reward that float32 cannot represent.
C8_Witness ==
    /\ bret.op = "get"
    /\ ptr = BufferSize
    /\ Len(bret.data.rewards) = BufferSize
    /\ added[1] # added[2]
    /\ \E i \in 1..Len(added) : added[i].reward % 2 = 1

\* C9: every PPOAgent.update call ends with the rollout buffer empty.
C9_UpdateEmptiesBuffer == bret.op = "update" => ptr = 0

\* ---- Battery ----

\* C10: soc is in [0, 1] in every reachable state, after any sequence of
\* BatteryAgent.act calls and training-environment steps with any action.
C10_SocInRange == soc >= 0 /\ soc <= SocUnits

\* A step asking for twice the discharge rate that emptied the battery.
C10_Witness ==
    /\ aret.op = "step" /\ aret.action > ActionUnits
    /\ soc = 0
    /\ delta_e > (battery.capacity * SocUnits) \div 2

\* ---- Agents' power ----

\* C11: whatever action is supplied, through act and through the training
\* environment's step, the producer's output is in [0, max_output], the
\* consumer's consumption in [0.5, 2.0] * baseline, the business's consumption
\* in [0.3, 1.5] * baseline and the battery's rate in [-charge_rate, charge_rate].
C11_PowerInDeclaredRange ==
    /\ pret.op # "__init__" =>
          CASE agent.type = "ProducerAgent" ->
                 /\ agent_delta_e >= 0
                 /\ agent_delta_e <= agent.size * PowerUnits
            [] agent.type = "ConsumerAgent" ->
                 /\ 2 * (-agent_delta_e) >= agent.size * PowerUnits
                 /\ -agent_delta_e <= 2 * agent.size * PowerUnits
            [] agent.type = "BusinessAgent" ->
                 /\ 10 * (-agent_delta_e) >= 3 * agent.size * PowerUnits
                 /\ 10 * (-agent_delta_e) <= 15 * agent.size * PowerUnits
    /\ aret.op # "__init__" =>
          Abs(delta_e) <= battery.charge_rate * SocUnits
\* ---- Pricing and tick ----

\* C12: in every grid state calculate_electricity_price returns a price, the
\* price is in [10, 200], and it is 150 when total supply is 0.
C12_PriceInRange ==
    ret.op = "calculate_electricity_price" =>
        /\ ret.val = "price"
        /\ price >= 10 * PriceUnits
        /\ price <= 200 * PriceUnits
\* C18: simulate_day returns after calling time_step 1440/dt times (the int
\* of it), once per tick and with increasing times of day.
C18_SimulateDayTicks ==
    ret.op = "simulate_day" =>
        /\ ret.val = "None"
        /\ Len(day.calls) = 1440 \div grid_dt
        /\ \A i, j \in 1..Len(day.calls) : i < j => day.calls[i] < day.calls[j]

\* The places of the events of one kind and node in the last time_step.
EventsOf(what, node) ==
    { k \in 1..Len(tick.events) :
        tick.events[k].what = what /\ tick.events[k].node = node }

\* C19: a time_step first computes the pre-action price; then steps every
\* node exactly once, all before the first transmission is read for the
\* perturbation; then calls compute_reward exactly once per agent, with the
\* pre-action price as prev_cost, and adds each result to episode_reward.
C19_TimeStepOrder ==
    ret.op = "time_step" =>
        /\ tick.events[1].what = "calculate_electricity_price"
        /\ \A n \in DOMAIN nodes :
              /\ Cardinality(EventsOf("node.time_step", n)) = 1
              /\ Cardinality(EventsOf("compute_reward", n)) = 1
              /\ Cardinality(EventsOf("update_reward", n)) = 1
              /\ \A k \in EventsOf("compute_reward", n) :
                    /\ tick.events[k].val = tick.events[1].val
                    /\ k + 1 \in EventsOf("update_reward", n)
              /\ \A m \in DOMAIN nodes :
                    \A a \in EventsOf("node.time_step", n),
                       b \in EventsOf("node.get_transmission", m),
                       c \in EventsOf("compute_reward", m) : a < b /\ b < c

\* What the last time_step did to the nodes and agents, whatever the order.
Touched ==
    [n \in DOMAIN nodes |->
        [stepped |-> Cardinality(EventsOf("node.time_step", n)),
         rewarded |-> Cardinality(EventsOf("update_reward", n))]]

\* C20: whatever the order in which a time_step visits the nodes and agents,
\* it leaves the grid in one and the same stepped state: the call returns,
\* and every node has moved once and every agent has its reward added once.
C20_TickOrderIndependent ==
    [][ret'.op = "time_step" =>
          /\ ret'.val = "None"
          /\ Touched' = [n \in DOMAIN nodes |-> [stepped |-> 1, rewarded |-> 1]]]_vars
\* C21: a time_step adds up inertia * transmission over the nodes into the
\* perturbation, and a tick whose perturbation is not zero changes
\* grid_frequency; on a grid with nodes the tick gets that far.
C21_FrequencyFollowsPerturbation ==
    [][ret'.op = "time_step" =>
          /\ DOMAIN nodes # {} => EventsOf("pertubation", None)' # {}
          /\ \A k \in EventsOf("pertubation", None)' :
                tick'.events[k].val # 0 => grid_frequency' # grid_frequency]_vars
\* ---- Branch ----

\* C13: for a branch of positive capacity and any phase offsets of its ends,
\* get_transmission returns transmission_factor * sin(offset1 - offset0) where
\* that is within [-capacity, capacity], and the nearer of -capacity and
\* capacity otherwise; its absolute value is at most capacity.
C13_TransmissionClamped ==
    tret = "get_transmission" =>
        LET raw == branch.transmission_factor * Sin(offset[1] - offset[0])
        IN /\ Abs(transmission) <= branch.capacity
           /\ Abs(raw) <= branch.capacity => transmission = raw
           /\ raw > branch.capacity => transmission = branch.capacity
           /\ raw < -branch.capacity => transmission = -branch.capacity

C13_Witness ==
    /\ tret = "get_transmission"
    /\ branch.transmission_factor * Sin(offset[1] - offset[0]) < -branch.capacity
    /\ transmission = -branch.capacity
\* ---- compute_reward ----

\* C14: for every agent class, every state and every list of other agents,
\* compute_reward returns a value, and the value is in [-1, 1].
C14_RewardInRange ==
    rret # "__init__" =>
        /\ rret = "value"
        /\ reward >= -RewardUnits
        /\ reward <= RewardUnits
\* ---- GAE ----

\* delta_t and the right-hand side of the recursion for A_t, from the values
\* returned for step t + 1, under the done flags ds
GaeDelta(t, ds) ==
    LET n == Len(rollout.rewards)
    IN GaeScale * rollout.rewards[t]
       + (GaeScale * rollout.gamma * (IF t = n THEN 0 ELSE rollout.values[t + 1])
          * (1 - ds[t])) \div 2
       - GaeScale * rollout.values[t]
GaeStep(t, ds, adv) ==
    LET n == Len(rollout.rewards)
    IN GaeDelta(t, ds)
       + (rollout.gamma * rollout.gae_lambda * (1 - ds[t])
          * (IF t = n THEN 0 ELSE adv[t + 1])) \div 4
GaeHolds(ds, adv) ==
    /\ Len(adv) = Len(rollout.rewards)
    /\ \A t \in 1..Len(adv) :
          /\ adv[t] = GaeStep(t, ds, adv)
          /\ gae.returns[t] = adv[t] + GaeScale * rollout.values[t]
          /\ ds[t] = 1 => adv[t] = GaeScale * (rollout.rewards[t] - rollout.values[t])

RECURSIVE McReturn(_, _)
McReturn(t, ds) ==
    IF t > Len(rollout.rewards) THEN 0
    ELSE GaeScale * rollout.rewards[t]
         + (rollout.gamma * (1 - ds[t]) * McReturn(t + 1, ds)) \div 2

\* With lambda = 1 the advantages adv are the returns minus the values, with
\* lambda = 0 the one-step errors.
LambdaLimits(ds, adv) ==
    /\ Len(adv) = Len(rollout.rewards)
    /\ rollout.gae_lambda = 2 =>
          \A t \in 1..Len(adv) :
             adv[t] = McReturn(t, ds) - GaeScale * rollout.values[t]
    /\ rollout.gae_lambda = 0 =>
          \A t \in 1..Len(adv) : adv[t] = GaeDelta(t, ds)

NoDones == [t \in 1..Len(rollout.rewards) |-> 0]

C26_SmallRolloutZeroAdvantages ==
    (gae.op \in {"compute_advantages", "update"} /\ Len(rollout.rewards) <= 1) =>
        /\ gae.normalized \in {"zeros", "no"}
        /\ Len(gae.advantages) = Len(rollout.rewards)
        /\ \A t \in 1..Len(gae.advantages) : gae.advantages[t] = 0
\* ---- NaN guard ----

\* C16: in a PPO update, when the loss computed for a minibatch is NaN the
\* optimizer step for it is skipped (the parameters are unchanged by it), zero
\* is reported as its loss, and the update goes on without raising.
\* PPOAgent.update: the first minibatch of a rollout of one transition has a
\* NaN loss.  PPOContinuous.update: a NaN policy loss, a NaN value loss.
C16_NanLossSkipsStep ==
    [][/\ (bret'.op = "update" /\ bret' # bret /\ ptr > 0 /\ AdvantagesNaN(ptr)
           /\ policy = "finite")
          => (policy' = "finite" /\ bret'.val = "stats")
       /\ (nret' # nret /\ nret'.nan_policy_loss)
          => (network'.policy_steps = network.policy_steps
              /\ nret'.policy_loss = "zero")
       /\ (nret' # nret /\ nret'.nan_value_loss)
          => (network'.value_steps = network.value_steps
              /\ nret'.value_loss = "zero")]_vars

\* ---- the PPO agents of one environment ----

\* C17: a PPO update of one agent leaves every other agent's rollout buffer,
\* policy parameters, optimizer state and training_step unchanged, and
\* update_agents leaves the agents in the state that visiting them in
\* increasing order of their ids gives, whatever order it visits them in.
C17_UpdatesIndependent ==
    [][/\ uret'.op = "update" =>
            \A j \in AgentIds \ {uret'.who[1]} : ppo_agents'[j] = ppo_agents[j]
       /\ uret'.op = "update_agents" =>
            ppo_agents' = UpdateAll([i \in AgentIds |-> i], 1,
                                    ppo_agents, generators).agents]_vars

\* ---- Node dynamics ----

\* C22: Node.time_step takes the acceleration power_injection
\* - friction * phase_velocity + net_transmission, adds acceleration * dt to
\* the phase velocity and then the new velocity * dt to the phase offset.
C22_NodeAcceleration ==
    [][kret'.op = "time_step" =>
          LET acceleration == kret'.d2offset - nd.friction * node_doffset
                              + nd.transmission
          IN /\ node_doffset' = node_doffset + acceleration * nd.dt
             /\ node_offset' = node_offset + node_doffset' * nd.dt]_vars

\* C23: the phase offset of a node lies in [0, 2 pi), twelve units of pi/6,
\* in every state.
C23_OffsetWrapped ==
    node_offset >= 0 /\ node_offset < 12

\* ---- BatteryAgent.act ----

\* The energy an action moves: |a| * min(charge_rate, free headroom) when
\* charging, |a| * min(charge_rate, stored energy) when discharging.
EnergyMoved(a) ==
    IF a > 0
    THEN (a * Min(battery.charge_rate * SocUnits,
                  (SocUnits - soc) * battery.capacity)) \div ActionUnits
    ELSE (Abs(a) * Min(battery.charge_rate * SocUnits, soc * battery.capacity))
         \div ActionUnits

\* C24: act with action a in [-1, 1] moves the energy above, never more than
\* charge_rate, the free headroom or the stored energy, and moves soc by
\* energy * efficiency / capacity, up when charging and down when
\* discharging.
C24_ActMovesEnergy ==
    [][(aret'.op = "act" /\ Abs(aret'.action) <= ActionUnits) =>
          LET a == aret'.action
              energy == EnergyMoved(a)
              change == (energy * EffNum) \div (EffDen * battery.capacity)
          IN /\ Abs(delta_e') = energy
             /\ energy <= battery.charge_rate * SocUnits
             /\ a > 0 => /\ delta_e' >= 0
                         /\ energy <= (SocUnits - soc) * battery.capacity
                         /\ soc' = soc + change
             /\ a < 0 => /\ delta_e' <= 0
                         /\ energy <= soc * battery.capacity
                         /\ soc' = soc - change
             /\ a = 0 => soc' = soc]_vars

\* ---- the training loop ----

\* C27: update_agents runs only when collect_rollout has returned, and at
\* that moment every buffer holds the same number of transitions, at most
\* buffer_size, and as many as the environment made steps in the rollout; in
\* every episode and for every rollout length.
C27_UpdateAfterFullRollout ==
    /\ [][uret'.op = "update_agents" =>
             /\ uret.op = "collect_rollout"
             /\ train.pc = "update"]_vars
    /\ [](train.pc = "update" =>
             \A i \in AgentIds :
                /\ ppo_agents[i].ptr = train.steps
                /\ ppo_agents[i].ptr <= BufferSize
                /\ train.steps = Min(train.n_steps, BufferSize))

C27_Witness ==
    /\ train.pc = "update"
    /\ train.episode = 2
    /\ train.n_steps > BufferSize
    /\ \A i \in AgentIds : ppo_agents[i].ptr = BufferSize
                           /\ ppo_agents[i].training_step = 1

(***************************************************************************)
(* Part 12: the transmissions of a grid's nodes                            *)
(***************************************************************************)

\* A grid made by the constructor and grown by add_connection only.
ConnNext ==
    \/ AddConnection
SpecConn == GridStart /\ [][ConnNext]_vars

\* The Node objects a grid has created so far.
Uids == 1..(next_uid - 1)

\* Node.offset of every Node object, in units of pi/6: whatever the calls of
\* Node.time_step made so far have left.
Phases == 0..3
PhaseMaps == [Uids -> Phases]

\* The Branch objects held by the nodes of the grid.
BranchesOf == UNION {{nodes[k].connections[i] : i \in DOMAIN nodes[k].connections} :
                     k \in DOMAIN nodes}

\* conn_data.get("power", 100): the capacity a Branch is built with, for an
\* absent, a zero, a positive and a negative "power" setting.
Powers == {NoVal, 0, 1, -2}
CapacityOf(power) == (IF power = NoVal THEN 100 ELSE power) * SinUnits
CapacityMaps == [BranchesOf -> {CapacityOf(p) : p \in Powers}]

\* Branch.get_transmission of branch b (transmission_factor 1.0) when the
\* offsets of the Node objects are offs and the capacities of the branches caps.
BranchFlow(b, offs, caps) ==
    Clamp(-caps[b], Sin(offs[b.node1.uid] - offs[b.node0.uid]), caps[b])

\* Every branch counted as leaving the node.
SignedFlow_outflow(n, b, offs, caps) == BranchFlow(b, offs, caps)

\* Node.get_transmission, lines 100-103: a branch whose node0 is this node
\* is added, any other branch of self.connections is subtracted.
SignedFlow(n, b, offs, caps) ==
    IF b.node0.uid = n.uid THEN BranchFlow(b, offs, caps)
    ELSE -BranchFlow(b, offs, caps)

RECURSIVE NodeFlow(_, _, _, _)
NodeFlow(n, i, offs, caps) ==
    IF i = 0 THEN 0
    ELSE NodeFlow(n, i - 1, offs, caps) + SignedFlow(n, n.connections[i], offs, caps)

node_get_transmission(n, offs, caps) == NodeFlow(n, Len(n.connections), offs, caps)

RECURSIVE TotalFlow(_, _, _)
TotalFlow(S, offs, caps) ==
    IF S = {} THEN 0
    ELSE LET k == CHOOSE x \in S : TRUE
         IN node_get_transmission(nodes[k], offs, caps)
            + TotalFlow(S \ {k}, offs, caps)

Count(q, b) == Cardinality({i \in DOMAIN q : q[i] = b})

C29_CompletedHasResults ==
    /\ stochastic_simulations.status = "completed"
          => simulation_results /\ stochastic_simulations.end_time # NoVal
    /\ response.body # "Results not found"

\* C30: act never writes outside the history arrays; update does nothing
\* until more than 100 acts were made since the last reset; an update trains
\* only on slots recorded since the last reset whose reward was written; an
\* update that trained leaves the histories reset.
C30_HistoriesSafe ==
    /\ hret.outcome # "raised"
    /\ base_agent.written \subseteq HistorySlots(base_agent.training_steps)
    /\ base_agent.rewarded \subseteq HistorySlots(base_agent.training_steps)
    /\ hret.outcome = "trained" => hret.step + 1 > 100
    /\ hret.outcome = "trained" =>
          /\ hret.trained \subseteq hret.written
          /\ hret.trained \subseteq hret.rewarded
    /\ hret.outcome = "trained" =>
          base_agent = base_reset(base_agent.training_steps)

=============================================================================
